---------------------------- MODULE Spec2Model ----------------------------
(***************************************************************************)
(* notion-sync: a daemon that keeps a local directory of markdown files    *)
(* and a Notion page tree consistent in both directions.                   *)
(*                                                                         *)
(* The module holds four state machines over one set of variables; each    *)
(* specification moves its own group and leaves the others at rest:        *)
(*                                                                         *)
(*   SpecQueue  the request queue (queue.ts), with a clock in ms           *)
(*   SpecRetry  withRetry (notion.ts), with a clock in ms                  *)
(*   SpecLock   the poller-write marker of the sync lock (sync-lock.ts)    *)
(*              and the watcher's test of it, with a clock in ms           *)
(*   SpecSync   the reconciler (sync.ts), the watcher (watcher.ts), the    *)
(*              sync lock and the remote page store, with the request      *)
(*              queue as the FIFO of outstanding remote calls              *)
(***************************************************************************)
EXTENDS Integers, Sequences, FiniteSets, TLC

\* ------------------------------------------------------------------------
\* Program constants
\* ------------------------------------------------------------------------

\* notion.ts, withRetry: retries = 3
DEFAULT_RETRIES == 3
\* notion.ts, withRetry: const wait = (i + 1) * 1e3
RETRY_BASE_MS == 1000
\* notion.ts, withRetry: status === 429
RATE_LIMITED == 429
\* sync-lock.ts, clearPollerWrite: setTimeout(..., 2e3)
CLEAR_DELAY_MS == 2000
\* queue.ts: await sleep(334) between two tasks of one drain loop
QUEUE_DELAY_MS == 334

\* watcher.ts: const DEBOUNCE_MS = 1e3
DEBOUNCE_MS == 1000

\* ------------------------------------------------------------------------
\* Bounds of the model
\* ------------------------------------------------------------------------

\* the largest `retries` withRetry is called with (its default is 3)
MaxRetries == 4
\* the step of SpecRetry's clock, in ms
RetryTick == 250
\* pull writes in one run of SpecLock
MaxPollerWrites == 3
\* the step of SpecLock's clock, in ms
LockTick == 1000
\* tasks handed to enqueue in one run of SpecQueue
MaxTasks == 4
\* the step of SpecQueue's clock, in ms
QueueTick == 167
\* the blocks of the page updatePageContent is called on, at most
MaxOld == 2
\* the blocks updatePageContent is called with, at most
MaxNew == 3
\* what happens to the reconciler in one run of SpecSync: edits of local
\* files by the user, edits of remote pages by other clients and calls of
\* syncFromNotion, taken together
MaxEvents == 2

\* chokidar events delivered to the watcher's handle
MaxWatchEvents == 3

\* ms the clock of the debounce timers advances in one step at most
WatchTick == 500

\* requests the webhook server receives
MaxRequests == 3

\* starts of the daemon (calls of startupSync)
MaxRuns == 2

\* calls of syncFile for the one path of the fast-path model
MaxFastCalls == 2

\* the outermost calls of ensureDirPage and syncFile over the nested tree
MaxEnsureCalls == 2

Min(a, b) == IF a < b THEN a ELSE b
Max(a, b) == IF a > b THEN a ELSE b

VARIABLES
  \* ---- request queue (queue.ts)
  queue,        \* const queue: Task[]  (task ids, head first)
  processing,   \* let processing
  drainPc,      \* where the one live drain() call stands: "none" | "task" | "sleep"
  sleepLeft,    \* ms left of the drain loop's sleep(334)
  executing,    \* tasks whose fn() has been called and has not settled
  started,      \* task ids in the order their fn() was called
  settled,      \* task id -> "pending" | "resolved" | "rejected" (the enqueue promise)
  nextTask,     \* id the next enqueue call gets (ids count the enqueue calls)
  sinceSettle,  \* ms since the last task settled, capped at QUEUE_DELAY_MS; -1: none yet
  gapAtStart,   \* sinceSettle as it was when the latest task started
  enqWhile,     \* the drain states in which enqueue has been called so far
  outcome,      \* task id -> what its fn() did: "none" (not yet) | "fulfilled" | "rejected"
  carried,      \* task id -> the task whose result or error its enqueue promise got; 0: none
  \* ---- withRetry (notion.ts)
  retries,      \* the parameter `retries`
  attempt,      \* the loop variable i
  retryPc,      \* "call" | "sleep" | "returned" | "thrown" | "off"
  retryLeft,    \* ms left of the backoff sleep
  retryLog,     \* what the call did so far: calls of fn with their outcome, sleeps with their ms
  raised,       \* the attempt (1-based) whose error object was thrown; 0: none
  waited,       \* ms slept so far
  \* ---- sync lock (sync-lock.ts)
  pollerWriting,  \* const pollerWriting = new Set<string>()
  clearTimers,    \* path -> the pending setTimeout callbacks of clearPollerWrite: ms left, oldest first
  watcherActive,  \* let watcherActive
  \* ---- SpecLock only: pull writes and the events they cause
  lockWrite,      \* path -> writeFile calls of pulls in flight (marked, not yet cleared)
  lockWrites,     \* pull writes begun so far
  sinceWrite,     \* path -> ms since the latest pull write of it ended, capped; -1: none yet
  pullEvents,     \* path -> chokidar events of pull writes not yet delivered to handle
  resubmitted,    \* paths for which handle scheduled a sync on the event of a pull write
  \* ---- the files, the sync state and the remote page store (sync.ts, state.ts)
  localFile,      \* path -> the text of the local file; Absent: no such file
  stateFiles,     \* state.files: path -> FileState; NoEntry: no such key
  fileKeys,       \* the keys of state.files in insertion order (Object.entries)
  persisted,      \* state.files as saveState wrote it last
  remote,         \* page id -> the remote page
  \* ---- watcher (watcher.ts)
  timers,         \* const timers: path -> what the pending debounce timer will run
  syncing,        \* const syncing
  pending,        \* const pending: path -> what guardedSync will schedule on finishing
  \* ---- the runWatcher(syncFile | syncDeleteFile) call of each path
  wPc,            \* path -> the await it is suspended at, "idle": no call
  wPage,          \* path -> the page id it works on (existing.notionPageId, pageId)
  wText,          \* path -> the content it read from the file
  wPlan,          \* path -> the remote mutations updatePageContent has left to make
  \* ---- remote calls
  rq,             \* the callers whose call waits in (or is at the head of) the request queue
  \* ---- syncFromNotion
  pullPc,         \* the await the pass is suspended at, "idle": no pass
  pullEntries,    \* Object.entries(state.files) as taken when the pass began
  pullIdx,        \* the entry the reduce chain is at
  pullTs,         \* lastEditedTime of the current entry
  pullMd,         \* md of the current entry
  \* ---- history
  localEdits,     \* edits of local files by the user so far
  remoteEdits,    \* edits of remote pages by other clients so far
  pullCalls,      \* calls of syncFromNotion so far
  lastPullEntry,  \* how the latest call of syncFromNotion left its entry check
  pullErrors,     \* the errors the catch of syncFromNotion has logged: call, path, await
  unsynced,       \* the files with a user edit after whose event no syncFile has started
  \* ---- one call of updatePageContent (notion.ts), run on its own
  upPage,         \* the blocks of the page, in page order: [id, block]
  upPage0,        \* the page as it was when updatePageContent was called
  upBlocks,       \* the parameter `blocks`
  upPc,           \* "called" | "list" | "ops" | "fallbackDelete" | "fallbackAppend" |
                  \* "returned" | "rejected" | "off"
  existingBlocks, \* const existingBlocks
  diffOps,        \* const ops = diffBlocks(existingBlocks, blocks)
  opIdx,          \* the element the reduce chain at hand is at
  lastInsertedId, \* let lastInsertedId (let lastId in the fallback); 0: null
  apiCalls,       \* the remote calls made so far
  nextBlockId,    \* the id the remote store gives the next block it creates
  upInFlight,     \* the mutation calls of updatePageContent issued and not yet answered
  \* ---- debounce and guardedSync (watcher.ts), run against a clock
  keyTimers,      \* const timers: key -> the pending setTimeout: ms left and the fn it runs
  keySyncing,     \* const syncing
  keyPending,     \* const pending: key -> the fn a guardedSync call parked
  inFlight,       \* key -> the fn() calls guardedSync awaits, oldest first
  watchEvents,    \* chokidar events delivered to handle so far
  sinceEvent,     \* key -> ms since the latest event of the key, capped; -1: none owed
  owedEvent,      \* key -> the latest event of the key not yet passed to guardedSync; 0: none
  \* ---- the webhook server (webhook.ts)
  hookSyncing,    \* let syncing
  hookRequests,   \* request -> what it is and where its handler stands
  hookNext,       \* the number the next request gets
  hookInFlight,   \* the requests whose onNotification call is awaited, oldest first
  hookReplies,    \* request -> the status it was answered with; 0: not answered
  hookInvoked,    \* the requests onNotification was called for, in call order
  \* ---- the daemon's start: loadState, startupSync (sync.ts), daemonChild
  stFile,         \* state.json: "absent" | "valid" | "corrupt" (not JSON)
  stPersisted,    \* the files and dirs of the state saveState wrote last
  memFiles,       \* state.files of the state object in memory: path -> FileState
  memDirs,        \* state.dirs: directory -> page id; 0: no such key
  disk,           \* path -> the text of the local file; Absent: no such file
  diskDirs,       \* the local directories
  pages,          \* the remote pages in the order they were created; the index is the id
  suPc,           \* the await startupSync is suspended at; "returned", "rejected", "off"
  scanFiles,      \* const files of scanLocal (relative paths)
  scanDirs,       \* const dirs of scanLocal
  suIdx,          \* the element the reduce chain at hand is at
  suPage,         \* the page id the step at hand works on
  suMd,           \* const md of pullNotionOnly
  prePullFileKeys, \* const prePullFileKeys
  notionTree,     \* the nodes of notionTree in the order pullNotionOnly visits them
  removedEntries, \* const removedEntries
  runCalls,       \* the remote calls of the startupSync call at hand, in order
  runs,           \* calls of startupSync so far (one per start of the daemon)
  daemon,         \* "starting" | "running" (watcher and server started) | "exited"
  suLoaded,       \* state.files as the call at hand got it from loadState
  pushedNow,      \* paths the call at hand tracked first in syncFile
  pulledNow,      \* paths the call at hand tracked first in pullNotionOnly
  archivedNow,    \* paths the call at hand archived
  createdNow,     \* pages the call at hand created
  failedAt,       \* the step whose remote call failed in the call at hand; "none"
  runLog,         \* per call of startupSync: what it found and how it ended
  \* ---- syncFile on one path, with the fingerprint of the file (sync.ts)
  fpPc,           \* the await syncFile is suspended at; "idle", "returned", "off"
  fpEntry,        \* state.files[relPath]; NoEntry: no such key
  fpFinger,       \* localMtime and localSize of the entry; NotSet: the field is missing
  fpStat,         \* what stat gave the call at hand
  fpFile,         \* the file: its text and its mtime
  fpCalls,        \* what the call at hand has called so far, in order
  fpEntry0,       \* fpEntry as it was when the call at hand began
  fpFinger0,      \* fpFinger as it was when the call at hand began
  fpRuns,         \* calls of syncFile so far
  \* ---- watcher syncs of files of one directory (sync.ts, watcher.ts)
  rcPc,           \* file -> the await its syncFile call is suspended at; "idle", "done"
  rcParent,       \* file -> parentPageId of its call; 0: not yet known
  rcPage,         \* file -> pageId of its call; 0: not yet known
  rcPages,        \* the remote pages in the order they were created; the index is the id
  rcDirs,         \* state.dirs[dir]: the page id; 0: no such key
  rcFiles,        \* state.files: file -> page id; 0: no such key
  rcQueue,        \* the calls waiting in the request queue, head first
  \* ---- ensureDirPage and syncFile over nested directories (sync.ts)
  enPages,        \* the remote pages in the order they were created; the index is the id
  enPages0,       \* the remote pages as the first call found them
  enDirs,         \* state.dirs: directory -> page id; 0: no such key
  enFiles,        \* state.files of the file: the page id; 0: no such key
  enStack,        \* the calls in progress, the innermost last: path, await, ids
  enCalls,        \* the remote calls made so far
  enPc,           \* the outermost call: "idle", "running", "returned", "rejected"
  enRuns          \* outermost calls so far

retryVars == <<retries, attempt, retryPc, retryLeft, retryLog, raised, waited>>

lockVars == <<pollerWriting, clearTimers, watcherActive>>

lockEnvVars == <<lockWrite, lockWrites, sinceWrite, pullEvents, resubmitted>>

queueVars == <<queue, processing, drainPc, sleepLeft, executing, started,
               settled, nextTask, sinceSettle, gapAtStart, enqWhile, outcome, carried>>

\* what has happened to the reconciler so far
Events == localEdits + remoteEdits + pullCalls

storeVars == <<localFile, stateFiles, fileKeys, persisted, remote>>

watcherVars == <<timers, syncing, pending>>

procVars == <<wPc, wPage, wText, wPlan>>

pullVars == <<pullPc, pullEntries, pullIdx, pullTs, pullMd>>

historyVars == <<localEdits, remoteEdits, pullCalls, lastPullEntry>>

syncVars == <<storeVars, watcherVars, procVars, rq, pullVars, historyVars, pullErrors, unsynced>>

updateVars == <<upPage, upPage0, upBlocks, upPc, existingBlocks, diffOps, opIdx,
                lastInsertedId, apiCalls, nextBlockId, upInFlight>>

debounceVars == <<keyTimers, keySyncing, keyPending, inFlight, watchEvents,
                  sinceEvent, owedEvent>>

hookVars == <<hookSyncing, hookRequests, hookNext, hookInFlight, hookReplies,
              hookInvoked>>

startVars == <<stFile, stPersisted, memFiles, memDirs, disk, diskDirs, pages, suPc,
               scanFiles, scanDirs, suIdx, suPage, suMd, prePullFileKeys, notionTree,
               removedEntries, runCalls, runs, daemon, suLoaded, pushedNow,
               pulledNow, archivedNow, createdNow, failedAt, runLog>>

fastVars == <<fpPc, fpEntry, fpFinger, fpStat, fpFile, fpCalls, fpEntry0, fpFinger0,
              fpRuns>>

raceVars == <<rcPc, rcParent, rcPage, rcPages, rcDirs, rcFiles, rcQueue>>

ensureVars == <<enPages, enPages0, enDirs, enFiles, enStack, enCalls, enPc, enRuns>>

vars == <<queueVars, retryVars, lockVars, lockEnvVars, syncVars, updateVars,
          debounceVars, hookVars, startVars, fastVars, raceVars, ensureVars>>

\* what the actions of one group leave alone
notQueue == <<retryVars, lockVars, lockEnvVars, syncVars, updateVars,
              debounceVars, hookVars,
  startVars, fastVars, raceVars, ensureVars>>
notRetry == <<queueVars, lockVars, lockEnvVars, syncVars, updateVars,
              debounceVars, hookVars,
  startVars, fastVars, raceVars, ensureVars>>
notLock == <<queueVars, retryVars, syncVars, updateVars, debounceVars, hookVars,
  startVars, fastVars, raceVars, ensureVars>>
notPull == <<queueVars, retryVars, lockEnvVars, updateVars, debounceVars, hookVars,
  startVars, fastVars, raceVars, ensureVars>>
notSync == <<notPull, pullErrors, unsynced>>
notUpdate == <<queueVars, retryVars, lockVars, lockEnvVars, syncVars,
               debounceVars, hookVars,
  startVars, fastVars, raceVars, ensureVars>>
notDebounce == <<queueVars, retryVars, pollerWriting, clearTimers, lockEnvVars,
                 syncVars, updateVars, hookVars,
  startVars, fastVars, raceVars, ensureVars>>
notStart == <<queueVars, retryVars, lockVars, lockEnvVars, syncVars, updateVars,
              debounceVars, hookVars, fastVars, raceVars, ensureVars>>
notFast == <<queueVars, retryVars, lockVars, lockEnvVars, syncVars, updateVars,
             debounceVars, hookVars, startVars, raceVars, ensureVars>>
notRace == <<queueVars, retryVars, lockVars, lockEnvVars, syncVars, updateVars,
             debounceVars, hookVars, startVars, fastVars, ensureVars>>
notEnsure == <<queueVars, retryVars, lockVars, lockEnvVars, syncVars, updateVars,
               debounceVars, hookVars, startVars, fastVars, raceVars>>
notHook == <<queueVars, retryVars, lockVars, lockEnvVars, syncVars, updateVars,
             debounceVars,
  startVars, fastVars, raceVars, ensureVars>>

\* ------------------------------------------------------------------------
\* queue.ts
\* ------------------------------------------------------------------------

TaskIds == 1..MaxTasks

QueueInit ==
  /\ queue = <<>>
  /\ processing = FALSE
  /\ drainPc = "none"
  /\ sleepLeft = 0
  /\ executing = {}
  /\ started = <<>>
  /\ settled = [t \in TaskIds |-> "pending"]
  /\ nextTask = 1
  /\ sinceSettle = -1
  /\ gapAtStart = -1
  /\ enqWhile = {}
  /\ outcome = [t \in TaskIds |-> "none"]
  /\ carried = [t \in TaskIds |-> 0]

\* a drain() that starts a second loop beside the live one
drainNeverReturnsAtOnce == FALSE

\* drain, line 13: if (processing) return
drainReturnsAtOnce == processing

\* a drain that shifts the head and does not call it
StartHeadUncalled(q) ==
  /\ queue' = Tail(q)
  /\ UNCHANGED <<executing, started, gapAtStart>>

\* drain, lines 21-27: const task = queue.shift()!; await task.fn() -- the call
\* of task.fn() itself, up to its first suspension
StartHead(q) ==
  /\ queue' = Tail(q)
  /\ executing' = executing \cup {Head(q)}
  /\ started' = Append(started, Head(q))
  /\ gapAtStart' = sinceSettle

\* enqueue(fn): queue.push(task); drain().  A drain() that does not return at
\* once sets processing, finds the queue non-empty, skips the sleep (isFirst)
\* and calls the head task's fn() before enqueue returns.
Enqueue ==
  /\ nextTask <= MaxTasks
  /\ nextTask' = nextTask + 1
  /\ enqWhile' = enqWhile \cup {drainPc}
  /\ IF drainReturnsAtOnce
       THEN /\ queue' = Append(queue, nextTask)
            /\ UNCHANGED <<processing, drainPc, executing, started, gapAtStart>>
       ELSE /\ processing' = TRUE
            /\ drainPc' = "task"
            /\ StartHead(Append(queue, nextTask))
  /\ UNCHANGED <<sleepLeft, settled, sinceSettle, outcome, carried>>
  /\ UNCHANGED notQueue

\* what the fn() of a task can do
FnOutcomes == {"fulfilled", "rejected"}

\* a catch clause that swallows the error and resolves
settleOfSwallowing(what) == "resolved"

\* drain, lines 22-27: task.resolve(result) in the try, task.reject(err) in
\* the catch
settleOf(what) == IF what = "fulfilled" THEN "resolved" ELSE "rejected"

\* The running task's fn() fulfils or rejects.  drain resumes: it resolves or
\* rejects the promise of this task with the result or the error of this
\* fn(), then tests the loop condition; with work left it sleeps (isFirst is
\* false from the second iteration on), else it clears processing and
\* returns.
TaskSettles(t, what) ==
  /\ t \in executing
  /\ executing' = executing \ {t}
  /\ outcome' = [outcome EXCEPT ![t] = what]
  /\ settled' = [settled EXCEPT ![t] = settleOf(what)]
  /\ carried' = [carried EXCEPT ![t] = t]
  /\ sinceSettle' = 0
  /\ IF Len(queue) > 0
       THEN /\ drainPc' = "sleep"
            /\ sleepLeft' = QUEUE_DELAY_MS
            /\ UNCHANGED processing
       ELSE /\ drainPc' = "none"
            /\ processing' = FALSE
            /\ UNCHANGED sleepLeft
  /\ UNCHANGED <<queue, started, nextTask, gapAtStart, enqWhile>>
  /\ UNCHANGED notQueue

\* The sleep of the drain loop is over: shift the head and call it.
SleepEnds ==
  /\ drainPc = "sleep"
  /\ sleepLeft = 0
  /\ drainPc' = "task"
  /\ StartHead(queue)
  /\ UNCHANGED <<processing, sleepLeft, settled, nextTask, sinceSettle, enqWhile,
                 outcome, carried>>
  /\ UNCHANGED notQueue

\* QueueTick ms pass.  A timer never fires early; it may fire late.
QueueClock ==
  /\ \/ drainPc = "sleep" /\ sleepLeft > 0
     \/ sinceSettle >= 0 /\ sinceSettle < QUEUE_DELAY_MS
  /\ sleepLeft' = Max(0, sleepLeft - QueueTick)
  /\ sinceSettle' = IF sinceSettle < 0 THEN sinceSettle
                    ELSE Min(QUEUE_DELAY_MS, sinceSettle + QueueTick)
  /\ UNCHANGED <<queue, processing, drainPc, executing, started, settled,
                 nextTask, gapAtStart, enqWhile, outcome, carried>>
  /\ UNCHANGED notQueue

QueueNext ==
  \/ Enqueue
  \/ \E t \in TaskIds, what \in FnOutcomes : TaskSettles(t, what)
  \/ SleepEnds
  \/ QueueClock

\* ------------------------------------------------------------------------
\* The data of the reconciler: files, pages, FileState
\* ------------------------------------------------------------------------

\* The markdown files of the synced directory, all at its top level
\* (dirname(relPath) is '.', so syncFile never calls ensureDirPage).
Paths == {"a.md", "b.md", "c.md"}

\* Object.entries visits string keys in insertion order
InitialKeys == <<"a.md", "b.md", "c.md">>

\* The texts a file can hold: 0 is the empty (all-whitespace) text, 1 a
\* paragraph "x", 2 a heading "x", 3 a paragraph "y", 4 the paragraph "x"
\* followed by blank lines.
Texts == 0..4

\* no such file
Absent == -1

\* The content of a page is at most one block: 0 is the page without blocks,
\* 1 a paragraph "x", 2 a heading "x", 3 a paragraph "y".
Blocks == 1..3

\* the type of a block
BlockType(b) == IF b = 2 THEN "heading_1" ELSE "paragraph"

\* converter.ts, mdToBlocks: trailing blank lines make no block
mdToBlocks(t) == IF t = 4 THEN 1 ELSE t

\* converter.ts, blocksToMd: the markdown of the blocks of a page
toMarkdown(b) == b

\* state.ts, hashContent: sha256 of the text; different texts, different digests
hashContent(t) == [sha256 |-> t]

\* The pages under the root page.  The files' pages come first; a page that
\* createPage makes takes the next id.
PageIds == 1..(Cardinality(Paths) + MaxEvents)

\* a page id that createPage has not handed out yet
NoPage == [title |-> "", blocks |-> 0, ts |-> 0, archived |-> FALSE]

\* state.files[relPath] is undefined
NoEntry == [page |-> 0, hash |-> hashContent(Absent), ts |-> 0]

\* buildFileState (lastSyncedAt is read by nothing and left out)
buildFileState(notionPageId, localHash, notionLastEdited) ==
  [page |-> notionPageId, hash |-> localHash, ts |-> notionLastEdited]

\* The remote mutations of updatePageContent for a page that holds `cur` and
\* is to hold `new` (new is a block: updatePageContent returns at once for an
\* empty list).  diffBlocks gives keep for two matching blocks, insert for a
\* page without blocks, else delete + insert, merged into one update when
\* the two blocks have the same type.
UpdateOps(cur, new) ==
  IF cur = new THEN <<>>
  ELSE IF cur = 0 THEN <<"append">>
  ELSE IF BlockType(cur) = BlockType(new) THEN <<"update">>
  ELSE <<"delete", "append">>

\* what a page holds after one mutation of a plan that leads to `new`
Mutated(op, new) == IF op = "delete" THEN 0 ELSE new

\* the first page id createPage has not handed out
RECURSIVE FreshPage(_)
FreshPage(n) == IF n \in PageIds /\ remote[n].title # "" THEN FreshPage(n + 1) ELSE n

\* The reconciler at rest, local and remote in agreement: every file holds
\* the paragraph "x", has its page and its FileState, and the state file is
\* up to date.  The pages:
RemoteAtRest ==
  [n \in PageIds |->
     IF n <= Len(InitialKeys)
       THEN [title |-> InitialKeys[n], blocks |-> 1, ts |-> 1, archived |-> FALSE]
       ELSE NoPage]

\* the same but for the pages: local files, state and processes
LocalAtRest ==
  /\ localFile = [p \in Paths |-> 1]
  /\ stateFiles = [p \in Paths |->
                     buildFileState(CHOOSE n \in 1..Len(InitialKeys) : InitialKeys[n] = p,
                                    hashContent(1), 1)]
  /\ fileKeys = InitialKeys
  /\ persisted = stateFiles
  /\ timers = [p \in Paths |-> "none"]
  /\ syncing = {}
  /\ pending = [p \in Paths |-> "none"]
  /\ wPc = [p \in Paths |-> "idle"]
  /\ wPage = [p \in Paths |-> 0]
  /\ wText = [p \in Paths |-> 0]
  /\ wPlan = [p \in Paths |-> <<>>]
  /\ rq = <<>>
  /\ pullPc = "idle"
  /\ pullEntries = <<>>
  /\ pullIdx = 0
  /\ pullTs = 0
  /\ pullMd = 0
  /\ lastPullEntry = "none"
  /\ pullErrors = {}
  /\ unsynced = {}

SyncAtRest ==
  /\ LocalAtRest
  /\ remote = RemoteAtRest

SyncOff ==
  /\ SyncAtRest
  /\ localEdits = MaxEvents
  /\ remoteEdits = 0
  /\ pullCalls = 0

UpdateOff ==
  /\ upPage = <<>>
  /\ upPage0 = <<>>
  /\ upBlocks = <<>>
  /\ upPc = "off"
  /\ existingBlocks = <<>>
  /\ diffOps = <<>>
  /\ opIdx = 0
  /\ lastInsertedId = 0
  /\ apiCalls = <<>>
  /\ nextBlockId = 0
  /\ upInFlight = 0

LockOff ==
  /\ pollerWriting = {}
  /\ clearTimers = [p \in Paths |-> <<>>]
  /\ watcherActive = 0
  /\ lockWrite = [p \in Paths |-> 0]
  /\ lockWrites = 0
  /\ sinceWrite = [p \in Paths |-> -1]
  /\ pullEvents = [p \in Paths |-> <<>>]
  /\ resubmitted = {}

RetryOff ==
  /\ waited = 0
  /\ retries = 0
  /\ attempt = 0
  /\ retryPc = "off"
  /\ retryLeft = 0
  /\ retryLog = <<>>
  /\ raised = 0

QueueOff ==
  /\ queue = <<>>
  /\ processing = FALSE
  /\ drainPc = "none"
  /\ sleepLeft = 0
  /\ executing = {}
  /\ started = <<>>
  /\ settled = [t \in TaskIds |-> "pending"]
  /\ nextTask = MaxTasks + 1
  /\ sinceSettle = -1
  /\ gapAtStart = -1
  /\ enqWhile = {}
  /\ outcome = [t \in TaskIds |-> "none"]
  /\ carried = [t \in TaskIds |-> 0]

\* The keys of the watcher's maps: the relative paths of markdown files.
Keys == {"a.md", "b.md"}

\* what chokidar reports events for: the markdown files and one other file
WatchedFiles == Keys \cup {"n.txt"}

\* no pending timer (timers.get(key) is undefined)
NoTimer == [left |-> -1, fn |-> [ev |-> 0, call |-> "none"]]

\* no parked fn (pending.get(key) is undefined)
NoFn == [ev |-> 0, call |-> "none"]

\* the requests of the webhook server
RequestIds == 1..MaxRequests

\* a request body that is not JSON (and the body of a request that has none)
NoBody == [json |-> FALSE, token |-> "absent", type |-> "none"]

\* no such request yet
NoRequest == [route |-> "none", body |-> NoBody, pc |-> "none"]

\* The paths of the daemon's start: a file of the root directory, a file of
\* the directory d, and the paths pullNotionOnly gives the pages r and d.
StartPaths == {"a.md", "d/b.md", "r.md", "d.md"}

\* the directories of the daemon's start
StartDirs == {"d"}

StartupOff ==
  /\ stFile = "absent"
  /\ stPersisted = [files |-> [p \in StartPaths |-> NoEntry], dirs |-> [d \in StartDirs |-> 0]]
  /\ memFiles = [p \in StartPaths |-> NoEntry]
  /\ memDirs = [d \in StartDirs |-> 0]
  /\ disk = [p \in StartPaths |-> Absent]
  /\ diskDirs = {}
  /\ pages = <<>>
  /\ suPc = "off"
  /\ scanFiles = <<>>
  /\ scanDirs = <<>>
  /\ suIdx = 0
  /\ suPage = 0
  /\ suMd = 0
  /\ prePullFileKeys = {}
  /\ notionTree = <<>>
  /\ removedEntries = <<>>
  /\ runCalls = <<>>
  /\ runs = 0
  /\ daemon = "exited"
  /\ suLoaded = [p \in StartPaths |-> NoEntry]
  /\ pushedNow = {}
  /\ pulledNow = {}
  /\ archivedNow = {}
  /\ createdNow = {}
  /\ failedAt = "none"
  /\ runLog = <<>>

\* a field of a FileState that is missing (states written before the
\* fields were introduced)
NotSet == -1

RaceFiles == {"d/a.md", "d/b.md"}

FastOff ==
  /\ fpPc = "off"
  /\ fpEntry = NoEntry
  /\ fpFinger = [mtime |-> NotSet, size |-> NotSet]
  /\ fpStat = [mtime |-> NotSet, size |-> NotSet]
  /\ fpFile = [text |-> Absent, mtime |-> 0]
  /\ fpCalls = <<>>
  /\ fpEntry0 = NoEntry
  /\ fpFinger0 = [mtime |-> NotSet, size |-> NotSet]
  /\ fpRuns = 0

RaceOff ==
  /\ rcPc = [f \in RaceFiles |-> "off"]
  /\ rcParent = [f \in RaceFiles |-> 0]
  /\ rcPage = [f \in RaceFiles |-> 0]
  /\ rcPages = <<>>
  /\ rcDirs = 0
  /\ rcFiles = [f \in RaceFiles |-> 0]
  /\ rcQueue = <<>>

\* the nested directories d and d/e
EnsureDirs == {"d", "d/e"}

EnsureOff ==
  /\ enPages = <<>>
  /\ enPages0 = <<>>
  /\ enDirs = [d \in EnsureDirs |-> 0]
  /\ enFiles = 0
  /\ enStack = <<>>
  /\ enCalls = <<>>
  /\ enPc = "off"
  /\ enRuns = 0

DebounceOff ==
  /\ keyTimers = [k \in Keys |-> NoTimer]
  /\ keySyncing = {}
  /\ keyPending = [k \in Keys |-> NoFn]
  /\ inFlight = [k \in Keys |-> <<>>]
  /\ watchEvents = MaxWatchEvents
  /\ sinceEvent = [k \in Keys |-> -1]
  /\ owedEvent = [k \in Keys |-> 0]

HookOff ==
  /\ hookSyncing = FALSE
  /\ hookRequests = [r \in RequestIds |-> NoRequest]
  /\ hookNext = MaxRequests + 1
  /\ hookInFlight = <<>>
  /\ hookReplies = [r \in RequestIds |-> 0]
  /\ hookInvoked = <<>>

InitQueue == QueueInit /\ RetryOff /\ LockOff /\ SyncOff /\ UpdateOff /\ DebounceOff /\ HookOff /\ StartupOff /\ FastOff /\ RaceOff /\ EnsureOff

SpecQueue == InitQueue /\ [][QueueNext]_vars

\* C7. Tasks start in the order of their enqueue calls (task ids count the
\* enqueue calls), at most one task is executing at any time, and a task has
\* started only when the task before it has settled.
C7_QueueOrder ==
  /\ Cardinality(executing) <= 1
  /\ \A i \in 1..Len(started) : started[i] = i
  /\ \A i \in 1..Len(started) - 1 : settled[started[i]] # "pending"

\* C7 witness: every task has been started, and enqueue has been called with
\* the queue idle, while a task was running and during the inter-call sleep.
C7_Witness ==
  /\ Len(started) = MaxTasks
  /\ enqWhile = {"none", "task", "sleep"}

\* C8. Whenever a task starts after another task of the queue has settled,
\* at least the pacing delay has passed since that task settled.
C8_Pacing == gapAtStart = -1 \/ gapAtStart >= QUEUE_DELAY_MS

\* C11. Error isolation: the promise of an enqueue call settles when, and
\* only when, the fn() of its own task has settled; it is rejected exactly
\* when that fn() rejected and resolved exactly when it fulfilled, with the
\* error or result of that fn() and of no other task; and as long as tasks
\* wait in the queue the drain loop is alive, whatever the tasks before did.
C11_ErrorIsolation ==
  /\ \A t \in TaskIds :
       /\ settled[t] = "pending" <=> outcome[t] = "none"
       /\ settled[t] = "rejected" <=> outcome[t] = "rejected"
       /\ settled[t] = "resolved" <=> outcome[t] = "fulfilled"
       /\ settled[t] # "pending" => carried[t] = t
       /\ settled[t] = "pending" => carried[t] = 0
  /\ queue # <<>> => processing /\ drainPc \in {"task", "sleep"}

\* C11 witness: the first task rejected, the task after it was started and
\* fulfilled, a later task rejected again and the last one fulfilled.
C11_Witness ==
  /\ MaxTasks >= 4
  /\ outcome[1] = "rejected" /\ settled[1] = "rejected"
  /\ outcome[2] = "fulfilled" /\ settled[2] = "resolved"
  /\ outcome[3] = "rejected" /\ settled[3] = "rejected"
  /\ outcome[MaxTasks] = "fulfilled" /\ settled[MaxTasks] = "resolved"

\* ------------------------------------------------------------------------
\* notion.ts: withRetry
\* ------------------------------------------------------------------------

\* What one call of fn() does: it fulfils, or it rejects with a value.  The
\* rejection values: an object with a status, an object without one, and a
\* value that is no object (a string, null).
Rejections ==
  {[obj |-> TRUE, hasStatus |-> TRUE, status |-> RATE_LIMITED],
   [obj |-> TRUE, hasStatus |-> TRUE, status |-> 500],
   [obj |-> TRUE, hasStatus |-> TRUE, status |-> 404],
   [obj |-> TRUE, hasStatus |-> FALSE, status |-> 0],
   [obj |-> FALSE, hasStatus |-> FALSE, status |-> 0]}

\* withRetry, lines 33-35
StatusOf(err) == IF err.obj /\ err.hasStatus THEN err.status ELSE 0

\* a retry test that still sleeps after the last allowed attempt
RetriesAfterOffByOne(err, i, n) == StatusOf(err) = RATE_LIMITED /\ i < n

\* withRetry, line 36: status === 429 && i < retries - 1
RetriesAfter(err, i, n) == StatusOf(err) = RATE_LIMITED /\ i < n - 1

\* withRetry, line 37
BackoffMs(i) == (i + 1) * RETRY_BASE_MS

RetryInit ==
  /\ waited = 0
  /\ retries \in 0..MaxRetries
  /\ attempt = 0
  /\ retryPc = IF retries > 0 THEN "call" ELSE "thrown"
  /\ retryLeft = 0
  /\ retryLog = <<>>
  /\ raised = 0

\* return await fn(), fulfilled
RetryCallReturns ==
  /\ retryPc = "call"
  /\ attempt < retries
  /\ retryLog' = Append(retryLog, [ev |-> "ok"])
  /\ retryPc' = "returned"
  /\ UNCHANGED <<retries, attempt, retryLeft, raised, waited>>
  /\ UNCHANGED notRetry

\* return await fn(), rejected with err: the catch clause
RetryCallThrows(err) ==
  /\ retryPc = "call"
  /\ attempt < retries
  /\ IF RetriesAfter(err, attempt, retries)
       THEN /\ retryLog' = retryLog \o <<[ev |-> "fail", err |-> err],
                                         [ev |-> "sleep", ms |-> BackoffMs(attempt)]>>
            /\ retryPc' = "sleep"
            /\ retryLeft' = BackoffMs(attempt)
            /\ UNCHANGED raised
       ELSE /\ retryLog' = Append(retryLog, [ev |-> "fail", err |-> err])
            /\ retryPc' = "thrown"
            /\ raised' = attempt + 1
            /\ UNCHANGED retryLeft
  /\ UNCHANGED <<retries, attempt, waited>>
  /\ UNCHANGED notRetry

\* RetryTick ms of the backoff sleep pass
RetryClock ==
  /\ retryPc = "sleep"
  /\ retryLeft > 0
  /\ retryLeft' = Max(0, retryLeft - RetryTick)
  /\ waited' = waited + Min(RetryTick, retryLeft)
  /\ UNCHANGED <<retries, attempt, retryPc, retryLog, raised>>
  /\ UNCHANGED notRetry

\* the sleep is over: i += 1 and the loop test
RetrySleepEnds ==
  /\ retryPc = "sleep"
  /\ retryLeft = 0
  /\ attempt' = attempt + 1
  /\ retryPc' = IF attempt + 1 < retries THEN "call" ELSE "thrown"
  /\ UNCHANGED <<retries, retryLeft, retryLog, raised, waited>>
  /\ UNCHANGED notRetry

RetryNext ==
  \/ RetryCallReturns
  \/ \E err \in Rejections : RetryCallThrows(err)
  \/ RetryClock
  \/ RetrySleepEnds

InitRetry == RetryInit /\ QueueOff /\ LockOff /\ SyncOff /\ UpdateOff /\ DebounceOff /\ HookOff /\ StartupOff /\ FastOff /\ RaceOff /\ EnsureOff

SpecRetry == InitRetry /\ [][RetryNext]_vars

\* the number of calls of fn among the first n entries of the log
RECURSIVE CallsUpTo(_)
CallsUpTo(n) ==
  IF n = 0 THEN 0
  ELSE CallsUpTo(n - 1) + (IF retryLog[n].ev = "sleep" THEN 0 ELSE 1)

\* C10. withRetry calls fn at most `retries` times.  After the k-th call
\* failed with status 429, k < retries, it sleeps k * 1000 ms and nothing
\* else before the next call.  When call number `retries` fails with 429, or
\* any call fails with another status (or with a value that carries none),
\* that call is the last thing withRetry does and the error of that very
\* call is thrown.  A fulfilled call ends withRetry too.
C10_Retry ==
  /\ CallsUpTo(Len(retryLog)) <= retries
  /\ \A n \in 1..Len(retryLog) :
       LET e == retryLog[n]
           k == CallsUpTo(n)
           last == n = Len(retryLog)
       IN  /\ e.ev = "ok" => last /\ retryPc = "returned" /\ raised = 0
           /\ e.ev = "fail" /\ StatusOf(e.err) = RATE_LIMITED /\ k < retries =>
                /\ ~last
                /\ retryLog[n + 1] = [ev |-> "sleep", ms |-> k * RETRY_BASE_MS]
                /\ n + 1 = Len(retryLog) => retryPc \in {"sleep", "call"}
           /\ e.ev = "fail" /\ ~(StatusOf(e.err) = RATE_LIMITED /\ k < retries) =>
                last /\ retryPc = "thrown" /\ raised = k
           /\ e.ev = "sleep" =>
                n > 1 /\ retryLog[n - 1].ev = "fail"
                      /\ StatusOf(retryLog[n - 1].err) = RATE_LIMITED
  /\ retryPc = "call" => 2 * waited = attempt * (attempt + 1) * RETRY_BASE_MS
  /\ retryPc = "thrown" /\ retries > 0 => raised > 0

\* C10 witness: the default three attempts all failed with 429; two sleeps
\* (1000 ms, 2000 ms) lie between them and the third error was thrown.
C10_Witness ==
  /\ retries = DEFAULT_RETRIES
  /\ retryPc = "thrown"
  /\ raised = DEFAULT_RETRIES
  /\ Len(retryLog) = 2 * DEFAULT_RETRIES - 1
  /\ retryLog[2].ms = RETRY_BASE_MS
  /\ retryLog[4].ms = 2 * RETRY_BASE_MS

\* ------------------------------------------------------------------------
\* sync-lock.ts: the poller-write marker
\* ------------------------------------------------------------------------

\* markPollerWrite: pollerWriting.add(relPath)
markPollerWrite(p) == pollerWriting \cup {p}

\* clearPollerWrite: setTimeout(() => pollerWriting.delete(relPath), 2e3)
clearPollerWrite(p) == [clearTimers EXCEPT ![p] = Append(@, CLEAR_DELAY_MS)]

\* isPollerWriting
isPollerWriting(p) == p \in pollerWriting

\* a test that misses a single runWatcher call in flight
isWatcherActiveOffByOne == watcherActive > 1

\* isWatcherActive
isWatcherActive == watcherActive > 0

\* the callback of clearPollerWrite's timer runs
PollerWriteCleared(p) ==
  /\ clearTimers[p] # <<>>
  /\ Head(clearTimers[p]) = 0
  /\ pollerWriting' = pollerWriting \ {p}
  /\ clearTimers' = [clearTimers EXCEPT ![p] = Tail(@)]
  /\ UNCHANGED <<watcherActive, lockEnvVars>>
  /\ UNCHANGED notLock

\* syncFromNotion, lines 1495-1496 (pullNotionOnly, 1347-1348):
\* syncLock.markPollerWrite(relPath); await writeFile(absFile, md) -- the
\* write begins
LockBeginWrite(p) ==
  /\ lockWrites < MaxPollerWrites
  /\ lockWrites' = lockWrites + 1
  /\ pollerWriting' = markPollerWrite(p)
  /\ lockWrite' = [lockWrite EXCEPT ![p] = @ + 1]
  /\ UNCHANGED <<clearTimers, watcherActive, sinceWrite, pullEvents, resubmitted>>
  /\ UNCHANGED notLock

\* syncFromNotion, lines 1496-1497: the write ends; syncLock.clearPollerWrite.
\* The write makes chokidar raise an event for the path.
LockEndWrite(p) ==
  /\ lockWrite[p] > 0
  /\ lockWrite' = [lockWrite EXCEPT ![p] = @ - 1]
  /\ clearTimers' = clearPollerWrite(p)
  /\ sinceWrite' = [sinceWrite EXCEPT ![p] = 0]
  /\ pullEvents' = [pullEvents EXCEPT ![p] = Append(@, 0)]
  /\ UNCHANGED <<pollerWriting, watcherActive, lockWrites, resubmitted>>
  /\ UNCHANGED notLock

\* startWatcher.handle, lines 429-434, on the event of a pull write: ignored
\* when the path is marked, else a sync of the path is scheduled.  The event
\* counts as resubmitted when it comes within the window of its own write.
LockDeliver(p) ==
  /\ pullEvents[p] # <<>>
  /\ pullEvents' = [pullEvents EXCEPT ![p] = Tail(@)]
  /\ resubmitted' = IF ~isPollerWriting(p) /\ Head(pullEvents[p]) < CLEAR_DELAY_MS
                      THEN resubmitted \cup {p} ELSE resubmitted
  /\ UNCHANGED <<lockVars, lockWrite, lockWrites, sinceWrite>>
  /\ UNCHANGED notLock

Aged(ms) == Min(CLEAR_DELAY_MS, ms + LockTick)

\* LockTick ms pass.  A timer never fires early; it may fire late.  A write
\* takes less than one step of the clock.
LockClock ==
  /\ \A p \in Paths : lockWrite[p] = 0
  /\ \E p \in Paths :
       \/ \E i \in 1..Len(clearTimers[p]) : clearTimers[p][i] > 0
       \/ sinceWrite[p] >= 0 /\ sinceWrite[p] < CLEAR_DELAY_MS
       \/ \E i \in 1..Len(pullEvents[p]) : pullEvents[p][i] < CLEAR_DELAY_MS
  /\ clearTimers' = [p \in Paths |->
                       [i \in 1..Len(clearTimers[p]) |-> Max(0, clearTimers[p][i] - LockTick)]]
  /\ sinceWrite' = [p \in Paths |->
                      IF sinceWrite[p] < 0 THEN sinceWrite[p] ELSE Aged(sinceWrite[p])]
  /\ pullEvents' = [p \in Paths |->
                      [i \in 1..Len(pullEvents[p]) |-> Aged(pullEvents[p][i])]]
  /\ UNCHANGED <<pollerWriting, watcherActive, lockWrite, lockWrites, resubmitted>>
  /\ UNCHANGED notLock

LockNext ==
  \/ \E p \in Paths : LockBeginWrite(p)
  \/ \E p \in Paths : LockEndWrite(p)
  \/ \E p \in Paths : LockDeliver(p)
  \/ \E p \in Paths : PollerWriteCleared(p)
  \/ LockClock

InitLock == LockOff /\ QueueOff /\ RetryOff /\ SyncOff /\ UpdateOff /\ DebounceOff /\ HookOff /\ StartupOff /\ FastOff /\ RaceOff /\ EnsureOff

SpecLock == InitLock /\ [][LockNext]_vars

\* C4. A path is marked while a pull write of it is in progress and for the
\* 2 s after its latest pull write ended, and no event of a pull write that
\* reaches the watcher within 2 s of that write is scheduled for a sync.
C4_SelfWriteSuppressed ==
  /\ \A p \in Paths : lockWrite[p] > 0 => isPollerWriting(p)
  /\ \A p \in Paths :
       sinceWrite[p] >= 0 /\ sinceWrite[p] < CLEAR_DELAY_MS => isPollerWriting(p)
  /\ resubmitted = {}

\* ------------------------------------------------------------------------
\* watcher.ts, and syncFile / syncDeleteFile of sync.ts
\* ------------------------------------------------------------------------

\* Remote calls.  Every call of notion.ts is handed to enqueue; the queue
\* runs the calls one at a time in the order they were handed in.  A caller
\* (the sync of a path, or the pull pass "pull") has at most one call
\* outstanding, so rq is the sequence of the callers that wait; the call at
\* its head is made, and answered, in one step.

\* startWatcher.handle: events of marked paths are dropped, other events
\* (re)start the path's debounce timer
handle(p, kind) ==
  IF isPollerWriting(p) THEN timers ELSE [timers EXCEPT ![p] = kind]

\* The user writes a file (chokidar: add or change).
UserWrite(p, t) ==
  /\ Events < MaxEvents
  /\ localFile[p] # t
  /\ localEdits' = localEdits + 1
  /\ localFile' = [localFile EXCEPT ![p] = t]
  /\ timers' = handle(p, "syncFile")
  /\ unsynced' = unsynced \cup {p}
  /\ UNCHANGED <<stateFiles, fileKeys, persisted, remote, syncing, pending,
                 procVars, rq, pullVars, remoteEdits, pullCalls, lastPullEntry>>
  /\ UNCHANGED <<lockVars, notPull, pullErrors>>

\* The user removes a file (chokidar: unlink).
UserUnlink(p) ==
  /\ Events < MaxEvents
  /\ localFile[p] # Absent
  /\ localEdits' = localEdits + 1
  /\ localFile' = [localFile EXCEPT ![p] = Absent]
  /\ timers' = handle(p, "syncDeleteFile")
  /\ unsynced' = unsynced \ {p}
  /\ UNCHANGED <<stateFiles, fileKeys, persisted, remote, syncing, pending,
                 procVars, rq, pullVars, remoteEdits, pullCalls, lastPullEntry>>
  /\ UNCHANGED <<lockVars, notPull, pullErrors>>

\* The end of runWatcher (finally: watcherActive -= 1) and of guardedSync
\* (finally: syncing.delete(key); a pending run is debounced, which replaces
\* a timer of the key).
Finish(p) ==
  /\ wPc' = [wPc EXCEPT ![p] = "idle"]
  /\ wPage' = [wPage EXCEPT ![p] = 0]
  /\ wText' = [wText EXCEPT ![p] = 0]
  /\ wPlan' = [wPlan EXCEPT ![p] = <<>>]
  /\ watcherActive' = watcherActive - 1
  /\ syncing' = syncing \ {p}
  /\ timers' = IF pending[p] # "none" THEN [timers EXCEPT ![p] = pending[p]] ELSE timers
  /\ pending' = [pending EXCEPT ![p] = "none"]

\* The debounce timer of a path fires: guardedSync(key, fn).  With the key in
\* `syncing` fn is parked in `pending`.  Else runWatcher calls fn: syncFile
\* runs up to its readFile; syncDeleteFile returns at once when the path has
\* no FileState, else it runs up to its archivePage call.
DebounceFires(p) ==
  /\ timers[p] # "none"
  /\ timers' = [timers EXCEPT ![p] = "none"]
  /\ IF p \in syncing
       THEN /\ pending' = [pending EXCEPT ![p] = timers[p]]
            /\ UNCHANGED <<syncing, watcherActive, procVars, rq>>
       ELSE /\ UNCHANGED pending
            /\ IF timers[p] = "syncFile"
                 THEN /\ syncing' = syncing \cup {p}
                      /\ watcherActive' = watcherActive + 1
                      /\ wPc' = [wPc EXCEPT ![p] = "readFile"]
                      /\ UNCHANGED <<wPage, wText, wPlan, rq>>
                 ELSE IF stateFiles[p] = NoEntry
                   THEN UNCHANGED <<syncing, watcherActive, procVars, rq>>
                   ELSE /\ syncing' = syncing \cup {p}
                        /\ watcherActive' = watcherActive + 1
                        /\ wPc' = [wPc EXCEPT ![p] = "archivePage"]
                        /\ wPage' = [wPage EXCEPT ![p] = stateFiles[p].page]
                        /\ rq' = Append(rq, p)
                        /\ UNCHANGED <<wText, wPlan>>
  /\ unsynced' = IF p \notin syncing /\ timers[p] = "syncFile"
                   THEN unsynced \ {p} ELSE unsynced
  /\ UNCHANGED <<storeVars, pullVars, historyVars>>
  /\ UNCHANGED <<pollerWriting, clearTimers, notPull, pullErrors>>

\* syncFile, lines 1200-1266: readFile is answered.  A missing file rejects;
\* an empty text and a text with the stored hash return; else the page of
\* the FileState is updated (first call: list its blocks), or, without a
\* FileState, the children of the root page are listed.
SyncRead(p) ==
  /\ wPc[p] = "readFile"
  /\ IF \/ localFile[p] = Absent
        \/ localFile[p] = 0
        \/ stateFiles[p] # NoEntry /\ stateFiles[p].hash = hashContent(localFile[p])
       THEN /\ Finish(p)
            /\ UNCHANGED rq
       ELSE /\ wText' = [wText EXCEPT ![p] = localFile[p]]
            /\ wPage' = [wPage EXCEPT ![p] = stateFiles[p].page]
            /\ wPc' = [wPc EXCEPT ![p] =
                         IF stateFiles[p] # NoEntry THEN "listBlocks" ELSE "getChildPages"]
            /\ rq' = Append(rq, p)
            /\ UNCHANGED <<wPlan, watcherActive, watcherVars>>
  /\ UNCHANGED <<storeVars, pullVars, historyVars>>
  /\ UNCHANGED <<pollerWriting, clearTimers, notSync>>

\* updatePageContent, lines 147-174: the blocks of the page are listed and
\* diffed against the new blocks.  Without a mutation to make
\* updatePageContent returns and syncFile calls getPageMeta.
SyncList(p) ==
  /\ rq # <<>> /\ Head(rq) = p
  /\ wPc[p] = "listBlocks"
  /\ LET ops == UpdateOps(remote[wPage[p]].blocks, mdToBlocks(wText[p]))
     IN  /\ wPlan' = [wPlan EXCEPT ![p] = ops]
         /\ wPc' = [wPc EXCEPT ![p] = IF ops = <<>> THEN "getPageMeta" ELSE "mutate"]
  /\ rq' = Append(Tail(rq), p)
  /\ UNCHANGED <<wPage, wText, watcherVars, storeVars, pullVars, historyVars>>
  /\ UNCHANGED <<lockVars, notSync>>

\* updatePageContent, lines 256-287: the next mutation of the plan.  The
\* remote store rejects a mutation of an archived page: updatePageContent
\* and syncFile reject.  Else the page changes, and with it its
\* last_edited_time.
SyncMutate(p) ==
  /\ rq # <<>> /\ Head(rq) = p
  /\ wPc[p] = "mutate"
  /\ IF remote[wPage[p]].archived
       THEN /\ Finish(p)
            /\ rq' = Tail(rq)
            /\ UNCHANGED remote
       ELSE /\ remote' = [remote EXCEPT ![wPage[p]].blocks =
                                          Mutated(Head(wPlan[p]), mdToBlocks(wText[p])),
                                        ![wPage[p]].ts = @ + 1]
            /\ wPlan' = [wPlan EXCEPT ![p] = Tail(@)]
            /\ wPc' = [wPc EXCEPT ![p] =
                         IF Tail(wPlan[p]) = <<>> THEN "getPageMeta" ELSE "mutate"]
            /\ rq' = Append(Tail(rq), p)
            /\ UNCHANGED <<wPage, wText, watcherActive, watcherVars>>
  /\ UNCHANGED <<localFile, stateFiles, fileKeys, persisted, pullVars, historyVars>>
  /\ UNCHANGED <<pollerWriting, clearTimers, notSync>>

\* the child pages of the root page with a title: archived pages are not listed
ChildPages(title) == {n \in PageIds : remote[n].title = title /\ ~remote[n].archived}

\* syncFile, lines 1266-1281: getChildPages is answered.  A child page with
\* the file's title is reused (updatePageContent: list its blocks), else a
\* page is created.
SyncSiblings(p) ==
  /\ rq # <<>> /\ Head(rq) = p
  /\ wPc[p] = "getChildPages"
  /\ IF ChildPages(p) # {}
       THEN /\ wPage' = [wPage EXCEPT ![p] = CHOOSE n \in ChildPages(p) :
                                                \A m \in ChildPages(p) : n <= m]
            /\ wPc' = [wPc EXCEPT ![p] = "listBlocks"]
       ELSE /\ wPc' = [wPc EXCEPT ![p] = "createPage"]
            /\ UNCHANGED wPage
  /\ rq' = Append(Tail(rq), p)
  /\ UNCHANGED <<wText, wPlan, watcherVars, storeVars, pullVars, historyVars>>
  /\ UNCHANGED <<lockVars, notSync>>

\* createPage is answered: a new page with the title and the blocks; syncFile
\* calls getPageMeta.
SyncCreate(p) ==
  /\ rq # <<>> /\ Head(rq) = p
  /\ wPc[p] = "createPage"
  /\ FreshPage(1) \in PageIds
  /\ remote' = [remote EXCEPT ![FreshPage(1)] =
                  [title |-> p, blocks |-> mdToBlocks(wText[p]), ts |-> 1, archived |-> FALSE]]
  /\ wPage' = [wPage EXCEPT ![p] = FreshPage(1)]
  /\ wPc' = [wPc EXCEPT ![p] = "getPageMeta"]
  /\ rq' = Append(Tail(rq), p)
  /\ UNCHANGED <<wText, wPlan, watcherVars, localFile, stateFiles, fileKeys, persisted,
                 pullVars, historyVars>>
  /\ UNCHANGED <<lockVars, notSync>>

\* state.files[relPath] = value: a new key goes to the end of the key order
WithKey(p) == IF \E i \in 1..Len(fileKeys) : fileKeys[i] = p THEN fileKeys
              ELSE Append(fileKeys, p)

\* delete state.files[relPath]
WithoutKey(p) == SelectSeq(fileKeys, LAMBDA k : k # p)

\* syncFile, lines 1256-1263 and 1283-1291: getPageMeta is answered; the
\* FileState is stored with the hash of the text read at the start, and
\* saveState is called (it first awaits mkdir).
SyncMeta(p) ==
  /\ rq # <<>> /\ Head(rq) = p
  /\ wPc[p] = "getPageMeta"
  /\ stateFiles' = [stateFiles EXCEPT ![p] =
                      buildFileState(wPage[p], hashContent(wText[p]), remote[wPage[p]].ts)]
  /\ fileKeys' = WithKey(p)
  /\ wPc' = [wPc EXCEPT ![p] = "saveState"]
  /\ rq' = Tail(rq)
  /\ UNCHANGED <<wPage, wText, wPlan, watcherVars, localFile, persisted, remote,
                 pullVars, historyVars>>
  /\ UNCHANGED <<lockVars, notSync>>

\* a syncDeleteFile that deletes the key before it awaits archivePage
entryAfterArchiveEager(existing, what) == NoEntry

\* syncDeleteFile, lines 1445-1446: await archivePage(...); delete
\* state.files[relPath]: the key is deleted when the call has fulfilled
entryAfterArchive(existing, what) == IF what = "fulfilled" THEN NoEntry ELSE existing

\* syncDeleteFile, lines 1445-1447: archivePage is answered; the key is
\* deleted and saveState is called.  Archiving changes last_edited_time.
SyncArchive(p) ==
  /\ rq # <<>> /\ Head(rq) = p
  /\ wPc[p] = "archivePage"
  /\ remote' = [remote EXCEPT ![wPage[p]].archived = TRUE, ![wPage[p]].ts = @ + 1]
  /\ stateFiles' = [stateFiles EXCEPT ![p] = entryAfterArchive(stateFiles[p], "fulfilled")]
  /\ fileKeys' = WithoutKey(p)
  /\ wPc' = [wPc EXCEPT ![p] = "saveState"]
  /\ rq' = Tail(rq)
  /\ UNCHANGED <<wPage, wText, wPlan, watcherVars, localFile, persisted,
                 pullVars, historyVars>>
  /\ UNCHANGED <<lockVars, notSync>>

\* saveState, line 72, called by syncFile or syncDeleteFile: the state as it
\* is now is written to the state file; the sync returns.
SyncSave(p) ==
  /\ wPc[p] = "saveState"
  /\ persisted' = stateFiles
  /\ Finish(p)
  /\ UNCHANGED <<localFile, stateFiles, fileKeys, remote, rq, pullVars, historyVars>>
  /\ UNCHANGED <<pollerWriting, clearTimers, notSync>>

\* ------------------------------------------------------------------------
\* sync.ts: syncFromNotion.  One pass at a time.
\* ------------------------------------------------------------------------

\* syncFromNotion, lines 1457-1464, with the watcher active: the call returns.
PullSkipped ==
  /\ Events < MaxEvents
  /\ isWatcherActive
  /\ pullCalls' = pullCalls + 1
  /\ lastPullEntry' = "skipped"
  /\ UNCHANGED <<storeVars, watcherVars, procVars, rq, pullVars, localEdits, remoteEdits>>
  /\ UNCHANGED <<lockVars, notSync>>

\* syncFromNotion, lines 1457-1472, with the watcher not active: the entries
\* of state.files are taken and the chain calls getPageMeta for the first;
\* without entries saveState is called.
PullStart ==
  /\ Events < MaxEvents
  /\ pullPc = "idle"
  /\ ~isWatcherActive
  /\ pullCalls' = pullCalls + 1
  /\ lastPullEntry' = "passed"
  /\ pullEntries' = [i \in 1..Len(fileKeys) |->
                       [relPath |-> fileKeys[i], fileState |-> stateFiles[fileKeys[i]]]]
  /\ IF fileKeys = <<>>
       THEN /\ pullPc' = "saveState"
            /\ UNCHANGED <<pullIdx, rq>>
       ELSE /\ pullPc' = "getPageMeta"
            /\ pullIdx' = 1
            /\ rq' = Append(rq, "pull")
  /\ UNCHANGED <<pullTs, pullMd, storeVars, watcherVars, procVars, localEdits, remoteEdits>>
  /\ UNCHANGED <<lockVars, notSync>>

\* the entry the chain is at
Entry == pullEntries[pullIdx]

\* The chain goes on after an entry: getPageMeta for the next entry, or,
\* after the last, saveState (line 1512).  q is the queue of remote calls.
PullAdvance(q) ==
  /\ pullTs' = 0
  /\ pullMd' = 0
  /\ IF pullIdx < Len(pullEntries)
       THEN /\ pullIdx' = pullIdx + 1
            /\ pullPc' = "getPageMeta"
            /\ rq' = Append(q, "pull")
            /\ UNCHANGED pullEntries
       ELSE /\ pullIdx' = 0
            /\ pullEntries' = <<>>
            /\ pullPc' = "saveState"
            /\ rq' = q

\* lines 1472-1488: getPageMeta is answered.  With the stored timestamp the
\* entry is done; else blocksToMd is called, which asks the remote store
\* for the page's blocks through the client, not through enqueue.
PullProbe ==
  /\ rq # <<>> /\ Head(rq) = "pull"
  /\ pullPc = "getPageMeta"
  /\ IF remote[Entry.fileState.page].ts # Entry.fileState.ts
       THEN /\ pullTs' = remote[Entry.fileState.page].ts
            /\ pullPc' = "blocksToMd"
            /\ rq' = Tail(rq)
            /\ UNCHANGED <<pullEntries, pullIdx, pullMd>>
       ELSE PullAdvance(Tail(rq))
  /\ UNCHANGED <<storeVars, watcherVars, procVars, historyVars>>
  /\ UNCHANGED <<lockVars, notSync>>

\* the remote requests of the process that are in flight outside the queue
DirectRequests == IF pullPc = "blocksToMd" THEN {"pageToMarkdown"} ELSE {}

\* lines 1486-1492: blocksToMd is answered with the markdown of the page as
\* it is now; mkdir is called.
PullToMd ==
  /\ pullPc = "blocksToMd"
  /\ pullMd' = toMarkdown(remote[Entry.fileState.page].blocks)
  /\ pullPc' = "mkdir"
  /\ UNCHANGED <<pullEntries, pullIdx, pullTs, rq>>
  /\ UNCHANGED <<storeVars, watcherVars, procVars, historyVars>>
  /\ UNCHANGED <<lockVars, notSync>>

\* lines 1486, 1505-1507: the remote store may refuse the blocks of an
\* archived page; blocksToMd rejects, the error is logged, the entry is done.
PullToMdFails ==
  /\ pullPc = "blocksToMd"
  /\ remote[Entry.fileState.page].archived
  /\ PullAdvance(rq)
  /\ UNCHANGED <<storeVars, watcherVars, procVars, historyVars>>
  /\ UNCHANGED <<lockVars, notSync>>

\* lines 1490-1496: mkdir is answered; the path is marked and writeFile is
\* called.
PullMkdir ==
  /\ pullPc = "mkdir"
  /\ pollerWriting' = markPollerWrite(Entry.relPath)
  /\ pullPc' = "writeFile"
  /\ UNCHANGED <<pullEntries, pullIdx, pullTs, pullMd, rq>>
  /\ UNCHANGED <<storeVars, watcherVars, procVars, historyVars>>
  /\ UNCHANGED <<clearTimers, watcherActive, notSync>>

\* lines 1496-1503: writeFile is answered, the file holds md.  chokidar
\* raises the event of the write, which handle gets at once.  The timer
\* that clears the mark is set, and the FileState is stored: the page id of
\* the entry taken at the start of the pass, the hash of md, the timestamp
\* getPageMeta gave.
PullWrite ==
  /\ pullPc = "writeFile"
  /\ localFile' = [localFile EXCEPT ![Entry.relPath] = pullMd]
  /\ timers' = handle(Entry.relPath, "syncFile")
  /\ clearTimers' = clearPollerWrite(Entry.relPath)
  /\ stateFiles' = [stateFiles EXCEPT ![Entry.relPath] =
                      buildFileState(Entry.fileState.page, hashContent(pullMd), pullTs)]
  /\ fileKeys' = WithKey(Entry.relPath)
  /\ PullAdvance(rq)
  /\ UNCHANGED <<persisted, remote, syncing, pending, procVars, historyVars>>
  /\ UNCHANGED <<pollerWriting, watcherActive, notSync>>

\* saveState, line 72, called by syncFromNotion: the pass returns.
PullSave ==
  /\ pullPc = "saveState"
  /\ persisted' = stateFiles
  /\ pullPc' = "idle"
  /\ UNCHANGED <<pullEntries, pullIdx, pullTs, pullMd, rq>>
  /\ UNCHANGED <<localFile, stateFiles, fileKeys, remote, watcherVars, procVars, historyVars>>
  /\ UNCHANGED <<lockVars, notSync>>

\* ------------------------------------------------------------------------
\* The surroundings of the reconciler
\* ------------------------------------------------------------------------

\* Another client edits a page: its block is replaced, its last_edited_time
\* changes.  Other clients edit pages that hold a block.
ExtEdit(n, b) ==
  /\ Events < MaxEvents
  /\ remote[n].title # ""
  /\ ~remote[n].archived
  /\ remote[n].blocks \notin {0, b}
  /\ remoteEdits' = remoteEdits + 1
  /\ remote' = [remote EXCEPT ![n].blocks = b, ![n].ts = @ + 1]
  /\ UNCHANGED <<localFile, stateFiles, fileKeys, persisted, watcherVars, procVars, rq,
                 pullVars, localEdits, pullCalls, lastPullEntry>>
  /\ UNCHANGED <<lockVars, notSync>>

\* The delay of clearPollerWrite passes: the timers set so far run their
\* callbacks (sync-lock.ts, line 21), one after the other.
ClearDelayPasses ==
  /\ \E p \in Paths : clearTimers[p] # <<>>
  /\ pollerWriting' = {p \in pollerWriting : clearTimers[p] = <<>>}
  /\ clearTimers' = [p \in Paths |-> <<>>]
  /\ UNCHANGED <<watcherActive, syncVars, notSync>>

SyncNext ==
  \/ \E p \in Paths, t \in Texts : UserWrite(p, t)
  \/ \E p \in Paths : UserUnlink(p)
  \/ \E p \in Paths : DebounceFires(p)
  \/ \E p \in Paths : SyncRead(p)
  \/ \E p \in Paths : SyncList(p)
  \/ \E p \in Paths : SyncMutate(p)
  \/ \E p \in Paths : SyncSiblings(p)
  \/ \E p \in Paths : SyncCreate(p)
  \/ \E p \in Paths : SyncMeta(p)
  \/ \E p \in Paths : SyncArchive(p)
  \/ \E p \in Paths : SyncSave(p)
  \/ PullSkipped
  \/ PullStart
  \/ PullProbe
  \/ PullToMd
  \/ PullToMdFails
  \/ PullMkdir
  \/ PullWrite
  \/ PullSave
  \/ \E n \in PageIds, b \in Blocks : ExtEdit(n, b)
  \/ ClearDelayPasses

SyncInit ==
  /\ SyncAtRest
  /\ localEdits = 0
  /\ remoteEdits = 0
  /\ pullCalls = 0

InitSync == SyncInit /\ QueueOff /\ RetryOff /\ LockOff /\ UpdateOff /\ DebounceOff /\ HookOff /\ StartupOff /\ FastOff /\ RaceOff /\ EnsureOff

SpecSync == InitSync /\ [][SyncNext]_vars

\* ------------------------------------------------------------------------
\* syncFromNotion against a remote store and a file system that may refuse
\* ------------------------------------------------------------------------

\* a catch clause that throws the error again
onEntryErrorRethrown(q) ==
  /\ pullPc' = "rejected"
  /\ pullIdx' = 0
  /\ pullEntries' = <<>>
  /\ pullTs' = 0
  /\ pullMd' = 0
  /\ rq' = q

\* syncFromNotion, lines 1505-1507: the catch logs the error; the callback
\* of the entry returns and the chain goes on.
onEntryError(q) == PullAdvance(q)

\* the awaits inside the try of an entry, lines 1472-1496
PullAwaits == {"getPageMeta", "blocksToMd", "mkdir", "writeFile"}

\* The await the pass is suspended at rejects: getPageMeta or blocksToMd is
\* refused by the remote store, mkdir or writeFile by the file system (the
\* file is not written; the mark set before writeFile stays, for
\* clearPollerWrite is not reached).
PullFails(at) ==
  /\ pullPc = at
  /\ at = "getPageMeta" => (rq # <<>> /\ Head(rq) = "pull")
  /\ pullErrors' = pullErrors \cup
                     {[call |-> pullCalls, relPath |-> Entry.relPath, at |-> at]}
  /\ onEntryError(IF at = "getPageMeta" THEN Tail(rq) ELSE rq)
  /\ UNCHANGED <<storeVars, watcherVars, procVars, historyVars>>
  /\ UNCHANGED <<lockVars, notPull, unsynced>>

\* Pulls of pages that other clients have edited since the last sync: the
\* pages in E hold the paragraph "y" and a later last_edited_time.
PullInit ==
  /\ LocalAtRest
  /\ \E E \in SUBSET (1..Len(InitialKeys)) :
       remote = [n \in PageIds |->
                   IF n \in E THEN [RemoteAtRest[n] EXCEPT !.blocks = 3, !.ts = 2]
                              ELSE RemoteAtRest[n]]
  /\ localEdits = 0
  /\ remoteEdits = 0
  /\ pullCalls = 0

PullNext ==
  \/ PullStart
  \/ PullProbe
  \/ PullToMd
  \/ PullMkdir
  \/ PullWrite
  \/ PullSave
  \/ \E at \in PullAwaits : PullFails(at)
  \/ \E n \in PageIds, b \in Blocks : ExtEdit(n, b)
  \/ ClearDelayPasses

InitPull ==
  /\ PullInit
  /\ QueueOff
  /\ RetryOff
  /\ LockOff
  /\ UpdateOff
  /\ DebounceOff
  /\ HookOff
  /\ StartupOff /\ FastOff /\ RaceOff /\ EnsureOff

SpecPull == InitPull /\ [][PullNext]_vars

\* C27: an error raised while one entry of a pass is probed or pulled leaves
\* the FileState and the local file of the entry as they were; the chain
\* goes on with the next entry, or, after the last, with saveState; the pass
\* does not reject.
C27_PullIsolation ==
  [][pullErrors' # pullErrors =>
       /\ stateFiles' = stateFiles
       /\ localFile' = localFile
       /\ pullPc' # "rejected"
       /\ IF pullIdx < Len(pullEntries)
            THEN /\ pullPc' = "getPageMeta"
                 /\ pullIdx' = pullIdx + 1
                 /\ pullEntries' = pullEntries
            ELSE pullPc' = "saveState"]_vars

\* a pass has returned in which one entry failed and a later one was pulled,
\* and the state file holds the state
C27_Witness ==
  /\ pullPc = "idle"
  /\ pullCalls = 1
  /\ persisted = stateFiles
  /\ \E e \in pullErrors, i, j \in 1..Len(InitialKeys) :
       /\ i < j
       /\ e.relPath = InitialKeys[i]
       /\ stateFiles[InitialKeys[i]].ts = 1
       /\ stateFiles[InitialKeys[j]].ts = 2
       /\ localFile[InitialKeys[j]] = 3

\* ------------------------------------------------------------------------
\* Properties of the reconciler
\* ------------------------------------------------------------------------

\* a runWatcher call is in flight
WatcherSyncInFlight == \E p \in Paths : wPc[p] # "idle"

\* nothing is in flight and no timer of the watcher is pending
AtRest ==
  /\ ~WatcherSyncInFlight
  /\ pullPc = "idle"
  /\ rq = <<>>
  /\ \A p \in Paths : timers[p] = "none"

\* C1. No feedback loop.  After one local edit and without an edit by
\* another client, once the pushes and pulls have come to rest, every
\* FileState holds the timestamp its page has, so that a pull that follows
\* the completed push finds the stored timestamp unchanged and does not
\* write the local file.
C1_NoFeedback ==
  AtRest /\ localEdits <= 1 /\ remoteEdits = 0 =>
    \A p \in Paths :
      stateFiles[p] # NoEntry => stateFiles[p].ts = remote[stateFiles[p].page].ts

\* C2. Cross-direction mutual exclusion: a sync of the watcher inside
\* runWatcher and a pull pass that has passed its entry check are never in
\* flight at the same time.
C2_MutualExclusion == ~(WatcherSyncInFlight /\ pullPc # "idle")

\* C3. A call of syncFromNotion made while a runWatcher call is in flight
\* makes no remote call (the queue of calls and the pages are as before),
\* writes no local file, changes no field of the state, does not call
\* saveState and starts no pass; nor does it touch the watcher or the lock.
C3_SkippedPullDoesNothing ==
  [][pullCalls' # pullCalls /\ WatcherSyncInFlight =>
       UNCHANGED <<storeVars, rq, pullVars, procVars, watcherVars, lockVars>>]_vars

\* C3 witness: syncFromNotion was called, and skipped, while a sync of the
\* watcher has a remote call outstanding.
C3_Witness ==
  /\ lastPullEntry = "skipped"
  /\ pullCalls > 0
  /\ \E p \in Paths : wPc[p] # "idle" /\ Len(rq) > 0 /\ Head(rq) = p

\* C5. Every FileState of the state references a page that is not archived.
C5_NoArchivedPageInState ==
  \A p \in Paths : stateFiles[p] # NoEntry => ~remote[stateFiles[p].page].archived

\* C6. Whenever no operation on a tracked path is in flight: if the stored
\* timestamp of the path is the timestamp its page has now, the page holds
\* the content whose hash is stored.
C6_HashMatchesTimestamp ==
  \A p \in Paths :
    /\ wPc[p] = "idle"
    /\ pullPc = "idle"
    /\ stateFiles[p] # NoEntry
    /\ stateFiles[p].ts = remote[stateFiles[p].page].ts
    => \E t \in Texts : /\ hashContent(t) = stateFiles[p].hash
                        /\ mdToBlocks(t) = remote[stateFiles[p].page].blocks

\* C9. Every remote request of the process is a task of the request queue:
\* no request is in flight outside it.
C9_AllCallsQueued == DirectRequests = {}

\* ------------------------------------------------------------------------
\* diff.ts: diffBlocks
\* ------------------------------------------------------------------------

\* The blocks the differ is run on: the blocks of Blocks and 4, the
\* paragraph "x" set in bold (its rich text differs from that of block 1,
\* its plain text does not).
DiffBlocks == Blocks \cup {4}

\* the plain text of a block (extractPlainText of its rich text)
BlockText(b) == IF b = 3 THEN "y" ELSE "x"

\* getBlockContent
getBlockContent(b) == [type |-> BlockType(b), text |-> BlockText(b)]

\* blocksMatch
blocksMatch(a, b) ==
  getBlockContent(a).type = getBlockContent(b).type
    /\ getBlockContent(a).text = getBlockContent(b).text

\* A block of a page as the remote store lists it: [id, block].  Ids are
\* positive; 0 stands for null (afterBlockId) and for "no block".
\* The ops of the differ, one record shape for the four types.
KeepOp(id) == [type |-> "keep", blockId |-> id, afterBlockId |-> 0, newBlock |-> 0]
DeleteOp(id) == [type |-> "delete", blockId |-> id, afterBlockId |-> 0, newBlock |-> 0]
UpdateOp(id, b) == [type |-> "update", blockId |-> id, afterBlockId |-> 0, newBlock |-> b]
InsertOp(after, b) == [type |-> "insert", blockId |-> 0, afterBlockId |-> after, newBlock |-> b]

\* a table that is never filled in
LcsTableFlat(old, new) == [i \in 0..Len(old), j \in 0..Len(new) |-> 0]

\* diffBlocks, lines 89-105: the LCS table
LcsTable(old, new) ==
  LET dp[i \in 0..Len(old), j \in 0..Len(new)] ==
        IF i = 0 \/ j = 0 THEN 0
        ELSE IF blocksMatch(old[i].block, new[j]) THEN dp[i - 1, j - 1] + 1
        ELSE Max(dp[i - 1, j], dp[i, j - 1])
  IN  dp

\* diffBlocks, lines 114-138: the backtrack from (i, j); the ops in the
\* order they are pushed to `reversed`
RECURSIVE Backtrack(_, _, _, _, _)
Backtrack(old, new, dp, i, j) ==
  IF i = 0 /\ j = 0 THEN <<>>
  ELSE IF i > 0 /\ j > 0 /\ blocksMatch(old[i].block, new[j])
    THEN <<KeepOp(old[i].id)>> \o Backtrack(old, new, dp, i - 1, j - 1)
  ELSE IF j > 0 /\ (i = 0 \/ dp[i, j - 1] >= dp[i - 1, j])
    THEN <<InsertOp(0, new[j])>> \o Backtrack(old, new, dp, i, j - 1)
  ELSE <<DeleteOp(old[i].id)>> \o Backtrack(old, new, dp, i - 1, j)

\* a differ that forgets to reverse
ReverseForgotten(seq) == seq

\* Array.prototype.reverse
Reverse(seq) == [k \in 1..Len(seq) |-> seq[Len(seq) + 1 - k]]

\* diffBlocks, line 140: the ops in page order, before the merge pass
Reversed(old, new) ==
  Reverse(Backtrack(old, new, LcsTable(old, new), Len(old), Len(new)))

\* oldBlocks.find((b) => b.id === id): the first block with the id
FindBlock(old, id) == old[CHOOSE k \in 1..Len(old) :
                            old[k].id = id /\ \A l \in 1..(k - 1) : old[l].id # id]

\* a merge test that does not look at the types
MergesAnyPair(old, curr, next) == TRUE

\* diffBlocks, lines 152-156: the deleted block and the inserted block have
\* the same type
Merges(old, curr, next) ==
  getBlockContent(FindBlock(old, curr.blockId).block).type
    = getBlockContent(next.newBlock).type

\* diffBlocks, lines 144-167: the merge pass
RECURSIVE MergePass(_, _)
MergePass(old, ops) ==
  IF ops = <<>> THEN <<>>
  ELSE IF /\ ops[1].type = "delete"
          /\ Len(ops) >= 2
          /\ ops[2].type = "insert"
          /\ Merges(old, ops[1], ops[2])
    THEN <<UpdateOp(ops[1].blockId, ops[2].newBlock)>> \o MergePass(old, Tail(Tail(ops)))
  ELSE <<ops[1]>> \o MergePass(old, Tail(ops))

\* diffBlocks, lines 169-185: afterBlockId of an insert is the id of the
\* latest kept or updated block before it, null (0) without one
RECURSIVE ResolveAnchors(_, _)
ResolveAnchors(ops, lastOldBlockId) ==
  IF ops = <<>> THEN <<>>
  ELSE IF ops[1].type \in {"keep", "update"}
    THEN <<ops[1]>> \o ResolveAnchors(Tail(ops), ops[1].blockId)
  ELSE IF ops[1].type = "delete"
    THEN <<ops[1]>> \o ResolveAnchors(Tail(ops), lastOldBlockId)
  ELSE <<InsertOp(lastOldBlockId, ops[1].newBlock)>>
         \o ResolveAnchors(Tail(ops), lastOldBlockId)

\* diffBlocks
diffBlocks(old, new) == ResolveAnchors(MergePass(old, Reversed(old, new)), 0)

\* ------------------------------------------------------------------------
\* notion.ts: updatePageContent, one call run on its own
\* ------------------------------------------------------------------------

\* the sequences over S of length 0..n
SeqsUpTo(S, n) == UNION {[1..k -> S] : k \in 0..n}

\* The remote store.  blocks.delete takes the block off the page.
PageDelete(pg, id) == SelectSeq(pg, LAMBDA e : e.id # id)

\* blocks.update replaces the content of the block, in place
PageUpdate(pg, id, b) ==
  [k \in 1..Len(pg) |-> IF pg[k].id = id THEN [id |-> id, block |-> b] ELSE pg[k]]

\* where a block is on the page; 0: nowhere
PositionOf(pg, id) ==
  IF \E k \in 1..Len(pg) : pg[k].id = id
    THEN CHOOSE k \in 1..Len(pg) : pg[k].id = id
    ELSE 0

\* blocks.children.append puts the new block directly after the block
\* `after`; without `after` (0) it puts it at the end of the page
PageAppend(pg, after, id, b) ==
  LET at == IF after = 0 THEN Len(pg) ELSE PositionOf(pg, after)
  IN  SubSeq(pg, 1, at) \o <<[id |-> id, block |-> b]>> \o SubSeq(pg, at + 1, Len(pg))

\* the remote calls as the log keeps them
ListCall == [call |-> "list", id |-> 0, after |-> 0, block |-> 0]
DeleteCall(id) == [call |-> "delete", id |-> id, after |-> 0, block |-> 0]
UpdateCall(id, b) == [call |-> "update", id |-> id, after |-> 0, block |-> b]
AppendCall(after, b, made) == [call |-> "append", id |-> made, after |-> after, block |-> b]

\* updatePageContent is called with `blocks` for a page that holds up to
\* MaxOld blocks, with the ids 1, 2, ...
UpdateInit ==
  /\ upPage \in {[k \in 1..Len(bs) |-> [id |-> k, block |-> bs[k]]] :
                   bs \in SeqsUpTo(DiffBlocks, MaxOld)}
  /\ upPage0 = upPage
  /\ upBlocks \in SeqsUpTo(DiffBlocks, MaxNew)
  /\ upPc = "called"
  /\ existingBlocks = <<>>
  /\ diffOps = <<>>
  /\ opIdx = 0
  /\ lastInsertedId = 0
  /\ apiCalls = <<>>
  /\ nextBlockId = Len(upPage) + 1
  /\ upInFlight = 0

\* an entry test that lets the empty list through
returnsAtOnceNever(blocks) == FALSE

\* updatePageContent, line 140: if (blocks.length === 0)
returnsAtOnce(blocks) == Len(blocks) = 0

\* updatePageContent, lines 140-153: return for an empty list, else the
\* first call: list the blocks of the page
UpEnter ==
  /\ upPc = "called"
  /\ upPc' = IF returnsAtOnce(upBlocks) THEN "returned" ELSE "list"
  /\ UNCHANGED <<upPage, upPage0, upBlocks, existingBlocks, diffOps, opIdx,
                 lastInsertedId, apiCalls, nextBlockId, upInFlight>>
  /\ UNCHANGED notUpdate

\* a test that takes an insert anywhere in the ops for a leading one
hasLeadingInsertAnywhere(o) ==
  /\ \E k \in 1..Len(o) : o[k].type = "insert"
  /\ \E k \in 1..Len(o) : o[k].type = "keep"

\* updatePageContent, lines 213-215
hasLeadingInsert(o) ==
  /\ Len(o) > 0
  /\ o[1].type = "insert"
  /\ \E k \in 1..Len(o) : o[k].type = "keep"

\* updatePageContent, lines 153-217: the list is answered (one request: a
\* page of up to 100 blocks); the diff is taken; with a leading insert the
\* fallback begins, else the ops are run.
UpList ==
  /\ upPc = "list"
  /\ apiCalls' = Append(apiCalls, ListCall)
  /\ existingBlocks' = upPage
  /\ diffOps' = diffBlocks(upPage, upBlocks)
  /\ opIdx' = 1
  /\ upPc' = IF hasLeadingInsert(diffBlocks(upPage, upBlocks)) THEN "fallbackDelete"
             ELSE IF diffBlocks(upPage, upBlocks) = <<>> THEN "returned"
             ELSE "ops"
  /\ UNCHANGED <<upPage, upPage0, upBlocks, lastInsertedId, nextBlockId, upInFlight>>
  /\ UNCHANGED notUpdate

\* a chain whose steps do not wait for the step before
chainReadyAtOnce(waiting) == TRUE

\* reduce((chain, x) => chain.then(async () => { await ... })): the step of
\* an element runs when the call of the step before it has been answered
chainReady(waiting) == waiting = 0

\* updatePageContent, lines 222-232: the fallback deletes the next listed
\* block
UpFallbackDelete ==
  /\ upPc = "fallbackDelete"
  /\ chainReady(upInFlight)
  /\ upInFlight' = upInFlight + 1
  /\ upPage' = PageDelete(upPage, existingBlocks[opIdx].id)
  /\ apiCalls' = Append(apiCalls, DeleteCall(existingBlocks[opIdx].id))
  /\ IF opIdx < Len(existingBlocks)
       THEN /\ opIdx' = opIdx + 1
            /\ UNCHANGED upPc
       ELSE /\ opIdx' = 1
            /\ upPc' = "fallbackAppend"
  /\ UNCHANGED <<upPage0, upBlocks, existingBlocks, diffOps, lastInsertedId, nextBlockId>>
  /\ UNCHANGED notUpdate

\* updatePageContent, lines 235-249: the fallback appends the next desired
\* block, after: lastId ?? undefined
UpFallbackAppend ==
  /\ upPc = "fallbackAppend"
  /\ opIdx > 0
  /\ chainReady(upInFlight)
  /\ upInFlight' = upInFlight + 1
  /\ upPage' = PageAppend(upPage, lastInsertedId, nextBlockId, upBlocks[opIdx])
  /\ apiCalls' = Append(apiCalls, AppendCall(lastInsertedId, upBlocks[opIdx], nextBlockId))
  /\ lastInsertedId' = nextBlockId
  /\ nextBlockId' = nextBlockId + 1
  /\ opIdx' = IF opIdx < Len(upBlocks) THEN opIdx + 1 ELSE 0
  /\ UNCHANGED upPc
  /\ UNCHANGED <<upPage0, upBlocks, existingBlocks, diffOps>>
  /\ UNCHANGED notUpdate

\* updatePageContent, lines 256-287: the next op of the chain.  keep makes
\* no call; insert appends after lastInsertedId ?? op.afterBlockId.
UpOp ==
  /\ upPc = "ops"
  /\ opIdx > 0
  /\ chainReady(upInFlight)
  /\ upInFlight' = IF diffOps[opIdx].type = "keep" THEN upInFlight ELSE upInFlight + 1
  /\ LET op == diffOps[opIdx]
         afterId == IF lastInsertedId # 0 THEN lastInsertedId ELSE op.afterBlockId
     IN  CASE op.type = "delete" ->
                /\ upPage' = PageDelete(upPage, op.blockId)
                /\ apiCalls' = Append(apiCalls, DeleteCall(op.blockId))
                /\ lastInsertedId' = 0
                /\ UNCHANGED nextBlockId
           [] op.type = "keep" ->
                /\ lastInsertedId' = 0
                /\ UNCHANGED <<upPage, apiCalls, nextBlockId>>
           [] op.type = "update" ->
                /\ upPage' = PageUpdate(upPage, op.blockId, op.newBlock)
                /\ apiCalls' = Append(apiCalls, UpdateCall(op.blockId, op.newBlock))
                /\ lastInsertedId' = 0
                /\ UNCHANGED nextBlockId
           [] op.type = "insert" ->
                /\ upPage' = PageAppend(upPage, afterId, nextBlockId, op.newBlock)
                /\ apiCalls' = Append(apiCalls, AppendCall(afterId, op.newBlock, nextBlockId))
                /\ lastInsertedId' = nextBlockId
                /\ nextBlockId' = nextBlockId + 1
  /\ opIdx' = IF opIdx < Len(diffOps) THEN opIdx + 1 ELSE 0
  /\ upPc' = IF opIdx = Len(diffOps) /\ upInFlight' = 0 THEN "returned" ELSE upPc
  /\ UNCHANGED <<upPage0, upBlocks, existingBlocks, diffOps>>
  /\ UNCHANGED notUpdate

\* A mutation call is answered; updatePageContent returns when the chain
\* has run its last step and every call has been answered.
UpAnswered ==
  /\ upInFlight > 0
  /\ upInFlight' = upInFlight - 1
  /\ upPc' = IF opIdx = 0 /\ upInFlight = 1 THEN "returned" ELSE upPc
  /\ UNCHANGED <<upPage, upPage0, upBlocks, existingBlocks, diffOps, opIdx,
                 lastInsertedId, apiCalls, nextBlockId>>
  /\ UNCHANGED notUpdate

UpdateNext ==
  \/ UpEnter
  \/ UpList
  \/ UpFallbackDelete
  \/ UpFallbackAppend
  \/ UpOp
  \/ UpAnswered

InitUpdate == UpdateInit /\ QueueOff /\ RetryOff /\ LockOff /\ SyncOff /\ DebounceOff /\ HookOff /\ StartupOff /\ FastOff /\ RaceOff /\ EnsureOff

SpecUpdate == InitUpdate /\ [][UpdateNext]_vars

\* ------------------------------------------------------------------------
\* Properties of diffBlocks and updatePageContent
\* ------------------------------------------------------------------------

\* the list is answered and the diff is taken
DiffTaken == upPc \in {"ops", "fallbackDelete", "fallbackAppend", "returned"}
               /\ apiCalls # <<>>

\* The reading of the ops the round-trip law gives: keep retains the block,
\* delete removes it, update replaces it in place, insert places the new
\* block directly after the block afterBlockId names, at the head for null.
ApplyOp(seq, op) ==
  CASE op.type = "keep" -> seq
    [] op.type = "delete" -> PageDelete(seq, op.blockId)
    [] op.type = "update" -> PageUpdate(seq, op.blockId, op.newBlock)
    [] op.type = "insert" ->
         LET at == IF op.afterBlockId = 0 THEN 0 ELSE PositionOf(seq, op.afterBlockId)
         IN  SubSeq(seq, 1, at) \o <<[id |-> 0, block |-> op.newBlock]>>
               \o SubSeq(seq, at + 1, Len(seq))

RECURSIVE ApplyOps(_, _)
ApplyOps(seq, o) == IF o = <<>> THEN seq ELSE ApplyOps(ApplyOp(seq, o[1]), Tail(o))

\* C12. Round trip: the ops of diffBlocks(old, new), applied to old one after
\* the other, give a sequence as long as new whose blocks match those of new
\* in the same order.
C12_RoundTrip ==
  DiffTaken =>
    LET got == ApplyOps(existingBlocks, diffOps)
    IN  /\ Len(got) = Len(upBlocks)
        /\ \A k \in 1..Len(got) : k <= Len(upBlocks) => blocksMatch(got[k].block, upBlocks[k])

\* the desired order puts a new block before a listed block that is kept
NeedsLeadingInsert(o) ==
  \E k \in 1..Len(o), l \in 1..Len(o) :
    k < l /\ o[k].type = "insert" /\ o[k].afterBlockId = 0 /\ o[l].type = "keep"

\* the calls of the fallback: the list, one delete per listed block, one
\* append per desired block, each after the block the append before it made
FallbackCalls(listed, blocks, firstId) ==
  <<ListCall>>
    \o [k \in 1..Len(listed) |-> DeleteCall(listed[k].id)]
    \o [k \in 1..Len(blocks) |->
          AppendCall(IF k = 1 THEN 0 ELSE firstId + k - 2, blocks[k], firstId + k - 1)]

\* C13. Whenever the desired order puts a new block before a listed block
\* that is kept, the calls updatePageContent makes are those of the
\* fallback, and nothing else: the list, a delete for every listed block,
\* then an append for every desired block, each anchored after the block
\* appended before it.
C13_LeadingInsertFallback ==
  DiffTaken /\ NeedsLeadingInsert(diffOps) =>
    LET want == FallbackCalls(existingBlocks, upBlocks, Len(existingBlocks) + 1)
    IN  /\ Len(apiCalls) <= Len(want)
        /\ apiCalls = SubSeq(want, 1, Len(apiCalls))
        /\ upPc = "returned" => apiCalls = want

\* C14. updatePageContent called with an empty list makes no remote call and
\* leaves the page as it was, whatever the page holds.
C14_EmptyIsNoOp ==
  upPc # "off" /\ upBlocks = <<>> =>
    /\ apiCalls = <<>>
    /\ upPage = upPage0
    /\ upPc \in {"called", "returned"}

\* C14 witness: the call with the empty list has returned, on a page that
\* holds as many blocks as a page may hold.
C14_Witness ==
  /\ upPc = "returned"
  /\ upBlocks = <<>>
  /\ Len(upPage0) = MaxOld

\* C15. When the new blocks are as many as the listed blocks and the i-th
\* new block has the type and the plain text of the i-th listed block, the
\* ops are one keep per listed block, in order, with that block's id.
C15_AllKeep ==
  /\ DiffTaken
  /\ Len(existingBlocks) = Len(upBlocks)
  /\ \A k \in 1..Len(existingBlocks) :
       k <= Len(upBlocks) =>
         getBlockContent(existingBlocks[k].block) = getBlockContent(upBlocks[k])
  => diffOps = [k \in 1..Len(existingBlocks) |-> KeepOp(existingBlocks[k].id)]

\* C15 witness: the page is full, every new block matches its listed block,
\* one of them without being the same block (bold against plain), and the
\* call has returned after the list alone.
C15_Witness ==
  /\ upPc = "returned"
  /\ Len(existingBlocks) = MaxOld
  /\ Len(upBlocks) = MaxOld
  /\ \A k \in 1..MaxOld : blocksMatch(existingBlocks[k].block, upBlocks[k])
  /\ \E k \in 1..MaxOld : existingBlocks[k].block # upBlocks[k]
  /\ apiCalls = <<ListCall>>

\* C16. Every update op stands for a delete that was directly followed by an
\* insert of a block of the deleted block's type, and carries the deleted
\* block's id and the inserted block; a delete directly followed by an
\* insert of another type stays a delete and an insert.
C16_UpdateOnlySameType ==
  DiffTaken =>
    LET before == Reversed(existingBlocks, upBlocks)
    IN  /\ \A k \in 1..Len(diffOps) :
             diffOps[k].type = "update" =>
               /\ BlockType(FindBlock(existingBlocks, diffOps[k].blockId).block)
                    = BlockType(diffOps[k].newBlock)
               /\ \E j \in 1..(Len(before) - 1) :
                    /\ before[j] = DeleteOp(diffOps[k].blockId)
                    /\ before[j + 1] = InsertOp(0, diffOps[k].newBlock)
        /\ \A k \in 1..(Len(diffOps) - 1) :
             diffOps[k].type = "delete" /\ diffOps[k + 1].type = "insert" =>
               BlockType(FindBlock(existingBlocks, diffOps[k].blockId).block)
                 # BlockType(diffOps[k + 1].newBlock)
        /\ \A j \in 1..(Len(before) - 1) :
             /\ before[j].type = "delete"
             /\ before[j + 1].type = "insert"
             /\ BlockType(FindBlock(existingBlocks, before[j].blockId).block)
                  # BlockType(before[j + 1].newBlock)
             => \A k \in 1..Len(diffOps) :
                  diffOps[k].type = "update" => diffOps[k].blockId # before[j].blockId

\* C16 witness: of two listed blocks the first was deleted and the second,
\* deleted and followed by an insert of its type, became an update.
C16_Witness ==
  /\ DiffTaken
  /\ Len(diffOps) = 2
  /\ diffOps[1].type = "delete"
  /\ diffOps[2].type = "update"
  /\ diffOps[2].newBlock # FindBlock(existingBlocks, diffOps[2].blockId).block

\* ------------------------------------------------------------------------
\* watcher.ts: debounce and guardedSync against a clock
\* ------------------------------------------------------------------------

\* extname(absPath)
extname(f) == IF f = "n.txt" THEN ".txt" ELSE ".md"

\* the events the 'all' listener gets for a file
WatchKinds == {"add", "change", "unlink"}

\* handle, lines 439-448: the fn the closure of event n hands to guardedSync
fnOf(kind, n) ==
  [ev |-> n, call |-> IF kind = "unlink" THEN "syncDeleteFile" ELSE "syncFile"]

\* debounce(key, fn): clearTimeout(existing), timers.set(key, setTimeout(...,
\* DEBOUNCE_MS))
debounce(tm, k, fn) == [tm EXCEPT ![k] = [left |-> DEBOUNCE_MS, fn |-> fn]]

\* a guardedSync that never finds the key in `syncing`
isSyncingNever(k) == FALSE

\* guardedSync, line 390: syncing.has(key)
isSyncing(k) == k \in keySyncing

\* sinceEvent is tracked up to here
SinceCap == 2 * DEBOUNCE_MS

DebounceInit ==
  /\ keyTimers = [k \in Keys |-> NoTimer]
  /\ keySyncing = {}
  /\ keyPending = [k \in Keys |-> NoFn]
  /\ inFlight = [k \in Keys |-> <<>>]
  /\ watchEvents = 0
  /\ sinceEvent = [k \in Keys |-> -1]
  /\ owedEvent = [k \in Keys |-> 0]

\* handle(event, absPath): files that are not markdown and paths the poller is
\* writing are ignored; else the event's closure is debounced under the path.
WatcherEvent(f, kind) ==
  /\ watchEvents < MaxWatchEvents
  /\ watchEvents' = watchEvents + 1
  /\ IF extname(f) # ".md" \/ isPollerWriting(f)
       THEN UNCHANGED <<keyTimers, sinceEvent, owedEvent>>
       ELSE /\ keyTimers' = debounce(keyTimers, f, fnOf(kind, watchEvents + 1))
            /\ sinceEvent' = [sinceEvent EXCEPT ![f] = 0]
            /\ owedEvent' = [owedEvent EXCEPT ![f] = watchEvents + 1]
  /\ UNCHANGED <<keySyncing, keyPending, inFlight, watcherActive>>
  /\ UNCHANGED notDebounce

\* The timer of a key is due: timers.delete(key); fn(), which calls
\* guardedSync(key, f).  With the key in `syncing` f is parked in `pending`;
\* else the key is added and runWatcher calls f (watcherActive += 1), which
\* runs up to its first await.
TimerFires(k) ==
  /\ keyTimers[k] # NoTimer
  /\ keyTimers[k].left = 0
  /\ keyTimers' = [keyTimers EXCEPT ![k] = NoTimer]
  /\ sinceEvent' = [sinceEvent EXCEPT ![k] = -1]
  /\ owedEvent' = [owedEvent EXCEPT ![k] = 0]
  /\ IF isSyncing(k)
       THEN /\ keyPending' = [keyPending EXCEPT ![k] = keyTimers[k].fn]
            /\ UNCHANGED <<keySyncing, inFlight, watcherActive>>
       ELSE /\ keySyncing' = keySyncing \cup {k}
            /\ inFlight' = [inFlight EXCEPT ![k] = Append(@, keyTimers[k].fn)]
            /\ watcherActive' = watcherActive + 1
            /\ UNCHANGED keyPending
  /\ UNCHANGED watchEvents
  /\ UNCHANGED notDebounce

\* a runWatcher that counts down after the await, outside a finally
afterRunWatcherInTry(n, what) == IF what = "fulfilled" THEN n - 1 ELSE n

\* runWatcher, lines 33-37: try { return await fn() } finally
\* { watcherActive -= 1 }
afterRunWatcher(n, what) == n - 1

\* The fn() a guardedSync call awaits settles.  runWatcher's finally:
\* watcherActive -= 1.  guardedSync's finally, the same for a fulfilled and a
\* rejected fn: syncing.delete(key); a parked fn is taken out of `pending`
\* and debounced under the key.
SyncSettles(k, what) ==
  /\ inFlight[k] # <<>>
  /\ inFlight' = [inFlight EXCEPT ![k] = Tail(@)]
  /\ watcherActive' = afterRunWatcher(watcherActive, what)
  /\ keySyncing' = keySyncing \ {k}
  /\ IF keyPending[k] # NoFn
       THEN /\ keyPending' = [keyPending EXCEPT ![k] = NoFn]
            /\ keyTimers' = debounce(keyTimers, k, keyPending[k])
       ELSE UNCHANGED <<keyPending, keyTimers>>
  /\ UNCHANGED <<watchEvents, sinceEvent, owedEvent>>
  /\ UNCHANGED notDebounce

\* the pending timers
LiveKeys == {k \in Keys : keyTimers[k] # NoTimer}

\* ms to the next timer that is due
NextDue == CHOOSE d \in {keyTimers[k].left : k \in LiveKeys} :
             \A k \in LiveKeys : d <= keyTimers[k].left

\* Time passes: WatchTick ms, or less when a timer is due sooner.  A timer
\* that is due fires before more time passes.
WatchClock ==
  /\ LiveKeys # {}
  /\ \A k \in LiveKeys : keyTimers[k].left > 0
  /\ LET d == Min(WatchTick, NextDue) IN
       /\ keyTimers' = [k \in Keys |->
            IF k \in LiveKeys
              THEN [keyTimers[k] EXCEPT !.left = keyTimers[k].left - d]
              ELSE keyTimers[k]]
       /\ sinceEvent' = [k \in Keys |->
            IF sinceEvent[k] < 0 THEN sinceEvent[k]
            ELSE Min(SinceCap, sinceEvent[k] + d)]
  /\ UNCHANGED <<keySyncing, keyPending, inFlight, watchEvents, owedEvent,
                 watcherActive>>
  /\ UNCHANGED notDebounce

WatcherNext ==
  \/ \E f \in WatchedFiles, kind \in WatchKinds : WatcherEvent(f, kind)
  \/ \E k \in Keys : TimerFires(k)
  \/ \E k \in Keys, what \in FnOutcomes : SyncSettles(k, what)
  \/ WatchClock

InitWatcher ==
  DebounceInit /\ QueueOff /\ RetryOff /\ LockOff /\ SyncOff /\ UpdateOff /\ HookOff
    /\ StartupOff /\ FastOff /\ RaceOff /\ EnsureOff

SpecWatcher == InitWatcher /\ [][WatcherNext]_vars

\* ------------------------------------------------------------------------
\* Properties of debounce and guardedSync
\* ------------------------------------------------------------------------

\* C17: for every key at most one fn() handed to guardedSync is in flight at
\* any time, whatever the order of events, timer firings and completions.
C17_PerPathSerialization ==
  \A k \in Keys : Len(inFlight[k]) <= 1

\* a timer of a key fired while a sync of the key was in flight, and its fn
\* was parked
C17_Witness ==
  \E k \in Keys : Len(inFlight[k]) = 1 /\ keyPending[k] # NoFn

\* C18: when the in-flight sync of a key completes, fulfilled or rejected,
\* while a fn is parked for the key, that fn is run at once: the step that
\* ends the sync leaves the parked fn in flight.
C18_PendingRerun ==
  [][\A k \in Keys :
       (Len(inFlight'[k]) < Len(inFlight[k]) /\ keyPending[k] # NoFn)
         => inFlight'[k] = <<keyPending[k]>>]_vars

\* C19: while the latest event of a key has not been passed to guardedSync,
\* the one timer of the key holds that event's fn and is due DEBOUNCE_MS
\* after that event, no sooner and no later, whatever happens to other keys.
C19_Debounce ==
  \A k \in Keys :
    owedEvent[k] # 0 =>
      /\ keyTimers[k] # NoTimer
      /\ keyTimers[k].fn.ev = owedEvent[k]
      /\ keyTimers[k].left = DEBOUNCE_MS - sinceEvent[k]

\* ------------------------------------------------------------------------
\* webhook.ts: startWebhookServer
\* ------------------------------------------------------------------------

\* What a request asks for: GET /health, POST /, anything else.
Routes == {"health", "notify", "other"}

\* body.verification_token: no such field, the empty string, a token
Tokens == {"absent", "empty", "set"}

\* body.type
HookTypes == {"page.content_updated", "page.created"}

\* The bodies of POST /: text that is not JSON, or an object.
Bodies == {NoBody} \cup [json : {TRUE}, token : Tokens, type : HookTypes]

\* if (body.verification_token): undefined and "" are falsy
truthy(token) == token = "set"

HookInit ==
  /\ hookSyncing = FALSE
  /\ hookRequests = [r \in RequestIds |-> NoRequest]
  /\ hookNext = 1
  /\ hookInFlight = <<>>
  /\ hookReplies = [r \in RequestIds |-> 0]
  /\ hookInvoked = <<>>

\* A request arrives and its handler runs up to its first await: GET /health
\* is answered 200, what is not POST / is answered 405, POST / waits for
\* readBody.
HookArrives(route, body) ==
  /\ hookNext <= MaxRequests
  /\ route # "notify" => body = NoBody
  /\ hookNext' = hookNext + 1
  /\ hookRequests' = [hookRequests EXCEPT ![hookNext] =
       [route |-> route, body |-> body,
        pc |-> IF route = "notify" THEN "readBody" ELSE "done"]]
  /\ hookReplies' = [hookReplies EXCEPT ![hookNext] =
       IF route = "health" THEN 200 ELSE IF route = "other" THEN 405 ELSE 0]
  /\ UNCHANGED <<hookSyncing, hookInFlight, hookInvoked>>
  /\ UNCHANGED notHook

\* readBody resolves and the handler runs on to its return or to the await of
\* onNotification: 400 for a body that does not parse; 200 and nothing else
\* for a truthy verification_token; else 200, and onNotification is called
\* when the type is page.content_updated and `syncing` is not set.
HookBody(r) ==
  /\ hookRequests[r].pc = "readBody"
  /\ LET b == hookRequests[r].body
         calls == /\ b.json
                  /\ ~truthy(b.token)
                  /\ b.type = "page.content_updated"
                  /\ ~hookSyncing
     IN /\ hookReplies' = [hookReplies EXCEPT ![r] = IF b.json THEN 200 ELSE 400]
        /\ hookRequests' = [hookRequests EXCEPT ![r].pc =
             IF calls THEN "onNotification" ELSE "done"]
        /\ hookSyncing' = (hookSyncing \/ calls)
        /\ hookInFlight' = IF calls THEN Append(hookInFlight, r) ELSE hookInFlight
        /\ hookInvoked' = IF calls THEN Append(hookInvoked, r) ELSE hookInvoked
  /\ UNCHANGED hookNext
  /\ UNCHANGED notHook

\* onNotification settles: a rejection is caught and logged; the finally
\* clears `syncing` either way.
HookSettles(r, what) ==
  /\ hookRequests[r].pc = "onNotification"
  /\ hookRequests' = [hookRequests EXCEPT ![r].pc = "done"]
  /\ hookInFlight' = SelectSeq(hookInFlight, LAMBDA x : x # r)
  /\ hookSyncing' = FALSE
  /\ UNCHANGED <<hookNext, hookReplies, hookInvoked>>
  /\ UNCHANGED notHook

HookNext ==
  \/ \E route \in Routes, body \in Bodies : HookArrives(route, body)
  \/ \E r \in RequestIds : HookBody(r)
  \/ \E r \in RequestIds, what \in FnOutcomes : HookSettles(r, what)

InitHook ==
  HookInit /\ QueueOff /\ RetryOff /\ LockOff /\ SyncOff /\ UpdateOff /\ DebounceOff
    /\ StartupOff /\ FastOff /\ RaceOff /\ EnsureOff

SpecWebhook == InitHook /\ [][HookNext]_vars

\* ------------------------------------------------------------------------
\* Properties of the webhook server
\* ------------------------------------------------------------------------

\* C20: onNotification is called only for notifications that carry no
\* verification_token and have the type page.content_updated; at most one
\* call is in flight; `syncing` is set exactly while a call is in flight; and
\* a page.content_updated notification that found a call in flight is
\* answered 200 and never called for.
C20_WebhookTrigger ==
  /\ \A i \in 1..Len(hookInvoked) :
       LET b == hookRequests[hookInvoked[i]].body IN
         /\ b.token = "absent"
         /\ b.type = "page.content_updated"
  /\ Len(hookInFlight) <= 1
  /\ hookSyncing <=> (hookInFlight # <<>>)
  /\ \A r \in RequestIds :
       (hookRequests[r].route = "notify" /\ hookRequests[r].pc = "done"
          /\ hookRequests[r].body.json)
         => hookReplies[r] = 200

\* ------------------------------------------------------------------------
\* Convergence of updatePageContent
\* ------------------------------------------------------------------------

\* C29. Patch convergence: when updatePageContent has returned for a
\* non-empty desired list, the page holds as many blocks as the desired list
\* and its blocks match the desired ones in the same order.
C29_PatchConvergence ==
  (upPc = "returned" /\ upBlocks # <<>>) =>
    /\ Len(upPage) = Len(upBlocks)
    /\ \A k \in 1..Len(upPage) :
         k <= Len(upBlocks) => blocksMatch(upPage[k].block, upBlocks[k])

\* ------------------------------------------------------------------------
\* The daemon's start: loadState (state.ts), startupSync (sync.ts),
\* daemonChild (index.ts)
\* ------------------------------------------------------------------------

\* The texts of the files and pages of a start: 0 is the empty text, 5 a text
\* of blanks and newlines only, 1 a paragraph "x", 3 a paragraph "y".
StartTexts == {0, 1, 3, 5}

\* String.prototype.trim
trim(t) == IF t = 5 THEN 0 ELSE t

\* a test for the empty text that does not trim
isBlankUntrimmed(t) == t = 0

\* syncFile, line 1210: content.trim() === ''; pullNotionOnly, line 1331:
\* !md || md.trim() === ''
isBlank(t) == trim(t) = 0

\* mdToBlocks of a text of a start: blanks make no block
startBlocks(t) == mdToBlocks(trim(t))

\* titleFromPath
titleFromPath(p) ==
  CASE p = "a.md" -> "a" [] p = "d/b.md" -> "b" [] p = "r.md" -> "r" [] p = "d.md" -> "d"

\* dirname(relPath)
dirnameOf(p) == IF p = "d/b.md" THEN "d" ELSE "."

\* scanLocal: the files in the order the walk meets them (readdir gives
\* the names in order; a directory is walked when it is met)
ScanOrder == <<"a.md", "d/b.md", "d.md", "r.md">>

\* the keys of state.files in the order Object.entries gives them
PathOrder == <<"a.md", "d/b.md", "r.md", "d.md">>

\* pullNotionOnly: `${title}.md`, `${parentRelPath}/${title}.md`
leafPath(parentTitle, title) ==
  CASE parentTitle = "" /\ title = "a" -> "a.md"
    [] parentTitle = "" /\ title = "r" -> "r.md"
    [] parentTitle = "" /\ title = "d" -> "d.md"
    [] parentTitle = "d" /\ title = "b" -> "d/b.md"

\* Object.keys(state.files)
TrackedIn(files) == {p \in StartPaths : files[p] # NoEntry}

\* the state object startupSync makes when loadState gives null
FreshState == [files |-> [p \in StartPaths |-> NoEntry], dirs |-> [d \in StartDirs |-> 0]]

\* loadState and startupSync, lines 1372-1381: readFile or JSON.parse throws,
\* the catch returns null, and null is replaced by a fresh state
loadState(file, saved) == IF file = "valid" THEN saved ELSE FreshState

\* getChildPages(parent): the child pages of a page in page order; archived
\* pages are not listed.  0 is the root page.
getChildPages(pg, parent) ==
  SelectSeq([i \in 1..Len(pg) |-> i],
            LAMBDA i : pg[i].parent = parent /\ ~pg[i].archived)

\* siblings.find((c) => c.title === title): the id, 0 for undefined
findTitle(pg, ids, title) ==
  IF \E k \in 1..Len(ids) : pg[ids[k]].title = title
    THEN ids[CHOOSE k \in 1..Len(ids) :
               /\ pg[ids[k]].title = title
               /\ \A l \in 1..(k - 1) : pg[ids[l]].title # title]
    ELSE 0

\* pullNotionOnly's visit of one child of the root: a page with child pages
\* is a directory, followed by its children; a page without is a file.
RECURSIVE nodesOf(_, _)
nodesOf(pg, ids) ==
  IF ids = <<>> THEN <<>>
  ELSE LET c == Head(ids)
           kids == getChildPages(pg, c)
       IN (IF kids = <<>>
             THEN <<[kind |-> "leaf", path |-> leafPath("", pg[c].title), id |-> c]>>
             ELSE <<[kind |-> "dir", path |-> pg[c].title, id |-> c]>>
                    \o [k \in 1..Len(kids) |->
                          [kind |-> "leaf",
                           path |-> leafPath(pg[c].title, pg[kids[k]].title),
                           id |-> kids[k]]])
            \o nodesOf(pg, Tail(ids))

\* fetchNotionTree(rootPageId), in the order pullNotionOnly walks it
treeOf(pg) == nodesOf(pg, getChildPages(pg, 0))

\* an archive step that takes the keys as they are after the pull
archivableLate(before, now) == now

\* startupSync, lines 1404-1413: prePullFileKeys.has(relPath)
archivable(before, now) == before

\* lines 1410-1413: the entries of state.files that were tracked before the
\* pull and are not among the scanned files
removedOf(files, before, scanned) ==
  SelectSeq(PathOrder,
            LAMBDA p : /\ p \in TrackedIn(files)
                       /\ p \in archivable(before, TrackedIn(files))
                       /\ \A k \in 1..Len(scanned) : scanned[k] # p)

\* a daemonChild that goes on after a failed startupSync
daemonAfterAnyway(result) == "running"

\* daemonChild, lines 95-110: a rejected startupSync ends the process; else
\* the watcher and the webhook server are started
daemonAfter(result) == IF result = "returned" THEN "running" ELSE "exited"

\* The worlds a start can find.  Of the files a.md and d/b.md those in T were
\* synced before: each has its page (d/b.md under the page of d) holding the
\* paragraph "x", and its FileState.  r says whether someone made a page r
\* under the root meanwhile, and what it holds.
PagesOf(T, r) ==
  (IF "a.md" \in T
     THEN <<[title |-> "a", parent |-> 0, blocks |-> 1, ts |-> 1, archived |-> FALSE]>>
     ELSE <<>>)
  \o (IF "d/b.md" \in T
        THEN <<[title |-> "d", parent |-> 0, blocks |-> 0, ts |-> 1, archived |-> FALSE],
               [title |-> "b", parent |-> (IF "a.md" \in T THEN 2 ELSE 1),
                blocks |-> 1, ts |-> 1, archived |-> FALSE]>>
        ELSE <<>>)
  \o (IF r >= 0
        THEN <<[title |-> "r", parent |-> 0, blocks |-> r, ts |-> 1, archived |-> FALSE]>>
        ELSE <<>>)

SavedOf(T) ==
  [files |-> [p \in StartPaths |->
                IF p \in T
                  THEN buildFileState(IF p = "a.md" THEN 1
                                      ELSE IF "a.md" \in T THEN 3 ELSE 2,
                                      hashContent(1), 1)
                  ELSE NoEntry],
   dirs |-> [d \in StartDirs |->
               IF "d/b.md" \in T THEN (IF "a.md" \in T THEN 2 ELSE 1) ELSE 0]]

\* The files on disk: a.md and d/b.md hold any text or are absent; d.md, a
\* file the user has written beside the directory d and that was never
\* synced, holds the paragraph "x" or is absent.
StartupInit ==
  /\ \E T \in SUBSET {"a.md", "d/b.md"}, r \in {-1, 0, 1, 5},
        ta \in StartTexts \cup {Absent}, tb \in StartTexts \cup {Absent},
        td \in {Absent, 1} :
       /\ pages = PagesOf(T, r)
       /\ disk = [p \in StartPaths |->
                    IF p = "a.md" THEN ta ELSE IF p = "d/b.md" THEN tb
                    ELSE IF p = "d.md" THEN td ELSE Absent]
       /\ diskDirs = IF tb # Absent \/ "d/b.md" \in T THEN {"d"} ELSE {}
       /\ \E f \in {"absent", "valid", "corrupt"} :
            /\ stFile = f
            /\ stPersisted = IF f = "absent" THEN FreshState ELSE SavedOf(T)
  /\ memFiles = FreshState.files
  /\ memDirs = FreshState.dirs
  /\ suPc = "load"
  /\ scanFiles = <<>>
  /\ scanDirs = <<>>
  /\ suIdx = 0
  /\ suPage = 0
  /\ suMd = 0
  /\ prePullFileKeys = {}
  /\ notionTree = <<>>
  /\ removedEntries = <<>>
  /\ runCalls = <<>>
  /\ runs = 0
  /\ daemon = "starting"
  /\ suLoaded = FreshState.files
  /\ pushedNow = {}
  /\ pulledNow = {}
  /\ archivedNow = {}
  /\ createdNow = {}
  /\ failedAt = "none"
  /\ runLog = <<>>

\* a remote call of the call at hand
Call(op, n) == [op |-> op, page |-> n]

\* A step of startupSync fails: nothing in startupSync catches, the call
\* rejects, and daemonChild decides what becomes of the process.
Rejects(step) ==
  /\ suPc' = "rejected"
  /\ failedAt' = step
  /\ runLog' = [runLog EXCEPT ![Len(runLog)].result = "rejected"]
  /\ daemon' = daemonAfter("rejected")

\* the chain of the files begins, or, without files, fetchNotionTree is called
FirstFile ==
  IF scanFiles' # <<>> THEN suIdx' = 1 /\ suPc' = "file"
                       ELSE suIdx' = 0 /\ suPc' = "fetchTree"

\* the chain of the directories goes on
NextDir ==
  IF suIdx < Len(scanDirs) THEN suIdx' = suIdx + 1 /\ suPc' = "dir"
  ELSE IF scanFiles # <<>> THEN suIdx' = 1 /\ suPc' = "file"
  ELSE suIdx' = 0 /\ suPc' = "fetchTree"

\* the chain of the files goes on
NextFile ==
  IF suIdx < Len(scanFiles) THEN suIdx' = suIdx + 1 /\ suPc' = "file"
                            ELSE suIdx' = 0 /\ suPc' = "fetchTree"

\* lines 1410-1422: removedEntries is taken and its chain begins; without
\* entries saveState is called
ToArchive(files, before) ==
  LET r == removedOf(files, before, scanFiles) IN
    /\ removedEntries' = r
    /\ IF r = <<>> THEN suIdx' = 0 /\ suPc' = "saveState"
                   ELSE suIdx' = 1 /\ suPc' = "archive"

\* the walk of pullNotionOnly goes on
NextNode(files) ==
  IF suIdx < Len(notionTree)
    THEN suIdx' = suIdx + 1 /\ suPc' = "node" /\ UNCHANGED removedEntries
    ELSE ToArchive(files, prePullFileKeys)

\* startupSync, lines 1371-1384: loadState, the fresh state for null,
\* scanLocal.  The chain of the directories begins.
StartupLoad ==
  /\ suPc = "load"
  /\ runs' = runs + 1
  /\ LET st == loadState(stFile, stPersisted) IN
       /\ memFiles' = st.files
       /\ memDirs' = st.dirs
       /\ suLoaded' = st.files
  /\ scanFiles' = SelectSeq(ScanOrder, LAMBDA p : disk[p] # Absent)
  /\ scanDirs' = IF "d" \in diskDirs THEN <<"d">> ELSE <<>>
  /\ IF scanDirs' # <<>> THEN suIdx' = 1 /\ suPc' = "dir" ELSE FirstFile
  /\ runCalls' = <<>>
  /\ pushedNow' = {}
  /\ pulledNow' = {}
  /\ archivedNow' = {}
  /\ createdNow' = {}
  /\ failedAt' = "none"
  /\ runLog' = Append(runLog,
                      [fresh |-> TrackedIn(loadState(stFile, stPersisted).files) = {},
                       scanned |-> scanFiles',
                       texts |-> [k \in 1..Len(scanFiles') |-> disk[scanFiles'[k]]],
                       remote |-> Len(getChildPages(pages, 0)),
                       result |-> "running"])
  /\ prePullFileKeys' = {}
  /\ notionTree' = <<>>
  /\ removedEntries' = <<>>
  /\ UNCHANGED <<stFile, stPersisted, disk, diskDirs, pages, suPage, suMd, daemon>>
  /\ UNCHANGED notStart

\* ensureDirPage for a scanned directory (all lie under the root): a
\* directory in state.dirs is done; else getChildPages(rootPageId) is
\* answered, and a child with the directory's name is reused.
StartupDir(ok) ==
  /\ suPc = "dir"
  /\ LET d == scanDirs[suIdx]
         siblings == getChildPages(pages, 0)
         existing == findTitle(pages, siblings, d)
     IN IF memDirs[d] # 0
          THEN /\ ok
               /\ NextDir
               /\ UNCHANGED <<memDirs, runCalls, failedAt, runLog, daemon>>
          ELSE /\ runCalls' = Append(runCalls, Call("getChildPages", 0))
               /\ IF ~ok THEN Rejects("dir") /\ UNCHANGED <<memDirs, suIdx>>
                  ELSE IF existing # 0
                    THEN /\ memDirs' = [memDirs EXCEPT ![d] = existing]
                         /\ NextDir
                         /\ UNCHANGED <<failedAt, runLog, daemon>>
                    ELSE /\ suPc' = "dirCreate"
                         /\ UNCHANGED <<memDirs, suIdx, failedAt, runLog, daemon>>
  /\ UNCHANGED <<stFile, stPersisted, memFiles, disk, diskDirs, pages, scanFiles,
                 scanDirs, suPage, suMd, prePullFileKeys, notionTree, removedEntries,
                 runs, suLoaded, pushedNow, pulledNow, archivedNow, createdNow>>
  /\ UNCHANGED notStart

\* ensureDirPage, lines 1177-1187: createPage(parentPageId, title, []) is
\* answered and the directory is recorded.
StartupDirCreate(ok) ==
  /\ suPc = "dirCreate"
  /\ runCalls' = Append(runCalls, Call("createPage", Len(pages) + 1))
  /\ IF ~ok
       THEN Rejects("dir") /\ UNCHANGED <<pages, memDirs, createdNow, suIdx>>
       ELSE /\ pages' = Append(pages, [title |-> scanDirs[suIdx], parent |-> 0,
                                        blocks |-> 0, ts |-> 1, archived |-> FALSE])
            /\ memDirs' = [memDirs EXCEPT ![scanDirs[suIdx]] = Len(pages) + 1]
            /\ createdNow' = createdNow \cup {Len(pages) + 1}
            /\ NextDir
            /\ UNCHANGED <<failedAt, runLog, daemon>>
  /\ UNCHANGED <<stFile, stPersisted, memFiles, disk, diskDirs, scanFiles, scanDirs,
                 suPage, suMd, prePullFileKeys, notionTree, removedEntries, runs,
                 suLoaded, pushedNow, pulledNow, archivedNow>>
  /\ UNCHANGED notStart

\* the parent page of a file: the root, or what ensureDirPage returns from
\* state.dirs (startupSync has ensured every scanned directory before)
parentPageOf(p, dirs) == IF dirnameOf(p) = "." THEN 0 ELSE dirs[dirnameOf(p)]

\* a syncFile that pushes whatever it reads
unchangedNever(existing, hash) == FALSE

\* a syncFile that skips every tracked file
unchangedIfTracked(existing, hash) == existing # NoEntry

\* syncFile, line 1219: existing && existing.localHash === hash
unchanged(existing, hash) == existing # NoEntry /\ existing.hash = hash

\* syncFile, lines 1200-1249: readFile; a blank file and a file with the
\* recorded hash are left alone; a tracked file goes to updatePageContent, an
\* untracked one to getChildPages.
StartupFile ==
  /\ suPc = "file"
  /\ LET p == scanFiles[suIdx]
         content == disk[p]
         existing == memFiles[p]
     IN IF isBlank(content) \/ unchanged(existing, hashContent(content))
          THEN NextFile /\ UNCHANGED suPage
          ELSE IF existing # NoEntry
            THEN suPc' = "update" /\ suPage' = existing.page /\ UNCHANGED suIdx
            ELSE suPc' = "siblings" /\ UNCHANGED <<suPage, suIdx>>
  /\ UNCHANGED <<stFile, stPersisted, memFiles, memDirs, disk, diskDirs, pages,
                 scanFiles, scanDirs, suMd, prePullFileKeys, notionTree,
                 removedEntries, runCalls, runs, daemon, suLoaded, pushedNow,
                 pulledNow, archivedNow, createdNow, failedAt, runLog>>
  /\ UNCHANGED notStart

\* syncFile, lines 1266-1281: getChildPages(parentPageId) is answered; a
\* child with the file's title is reused, else a page is to be created.
StartupSiblings(ok) ==
  /\ suPc = "siblings"
  /\ LET p == scanFiles[suIdx]
         parent == parentPageOf(p, memDirs)
         match == findTitle(pages, getChildPages(pages, parent), titleFromPath(p))
     IN /\ runCalls' = Append(runCalls, Call("getChildPages", parent))
        /\ IF ~ok THEN Rejects("file") /\ UNCHANGED suPage
           ELSE /\ IF match # 0 THEN suPc' = "update" /\ suPage' = match
                                ELSE suPc' = "create" /\ UNCHANGED suPage
                /\ UNCHANGED <<failedAt, runLog, daemon>>
  /\ UNCHANGED <<stFile, stPersisted, memFiles, memDirs, disk, diskDirs, pages,
                 scanFiles, scanDirs, suIdx, suMd, prePullFileKeys, notionTree,
                 removedEntries, runs, suLoaded, pushedNow, pulledNow, archivedNow,
                 createdNow>>
  /\ UNCHANGED notStart

\* syncFile, lines 1251-1255 and 1273-1277: updatePageContent(pageId, blocks)
\* is answered.  The pages of a start hold one block at most, and the update
\* leaves the page holding the file's blocks; a refused update leaves the
\* page as it was.
StartupUpdate(ok) ==
  /\ suPc = "update"
  /\ runCalls' = Append(runCalls, Call("updatePageContent", suPage))
  /\ IF ~ok THEN Rejects("file") /\ UNCHANGED pages
     ELSE /\ pages' = [pages EXCEPT
                         ![suPage].blocks = startBlocks(disk[scanFiles[suIdx]]),
                         ![suPage].ts = @ + 1]
          /\ suPc' = "meta"
          /\ UNCHANGED <<failedAt, runLog, daemon>>
  /\ UNCHANGED <<stFile, stPersisted, memFiles, memDirs, disk, diskDirs, scanFiles,
                 scanDirs, suIdx, suPage, suMd, prePullFileKeys, notionTree,
                 removedEntries, runs, suLoaded, pushedNow, pulledNow, archivedNow,
                 createdNow>>
  /\ UNCHANGED notStart

\* syncFile, line 1280: createPage(parentPageId, title, blocks) is answered.
StartupCreate(ok) ==
  /\ suPc = "create"
  /\ runCalls' = Append(runCalls, Call("createPage", Len(pages) + 1))
  /\ IF ~ok THEN Rejects("file") /\ UNCHANGED <<pages, suPage, createdNow>>
     ELSE LET p == scanFiles[suIdx] IN
          /\ pages' = Append(pages, [title |-> titleFromPath(p),
                                     parent |-> parentPageOf(p, memDirs),
                                     blocks |-> startBlocks(disk[p]),
                                     ts |-> 1, archived |-> FALSE])
          /\ suPage' = Len(pages) + 1
          /\ createdNow' = createdNow \cup {Len(pages) + 1}
          /\ suPc' = "meta"
          /\ UNCHANGED <<failedAt, runLog, daemon>>
  /\ UNCHANGED <<stFile, stPersisted, memFiles, memDirs, disk, diskDirs, scanFiles,
                 scanDirs, suIdx, suMd, prePullFileKeys, notionTree, removedEntries,
                 runs, suLoaded, pushedNow, pulledNow, archivedNow>>
  /\ UNCHANGED notStart

\* a syncFile that records the FileState before getPageMeta is answered
recordedBeforeMeta(files, p, entry, ok) == [files EXCEPT ![p] = entry]

\* syncFile, lines 1256-1263 and 1283-1288: state.files[relPath] is set
\* after await getPageMeta
recorded(files, p, entry, ok) == IF ok THEN [files EXCEPT ![p] = entry] ELSE files

\* syncFile, lines 1256-1263, 1283-1291: getPageMeta is answered, the
\* FileState is recorded and saveState writes the state file.
StartupMeta(ok) ==
  /\ suPc = "meta"
  /\ runCalls' = Append(runCalls, Call("getPageMeta", suPage))
  /\ memFiles' = recorded(memFiles, scanFiles[suIdx],
                          buildFileState(suPage, hashContent(disk[scanFiles[suIdx]]),
                                         pages[suPage].ts),
                          ok)
  /\ IF ~ok
       THEN Rejects("file")
            /\ UNCHANGED <<pushedNow, stPersisted, stFile, suIdx>>
       ELSE LET p == scanFiles[suIdx] IN
            /\ pushedNow' = pushedNow \cup {p}
            /\ stPersisted' = [files |-> memFiles', dirs |-> memDirs]
            /\ stFile' = "valid"
            /\ NextFile
            /\ UNCHANGED <<failedAt, runLog, daemon>>
  /\ UNCHANGED <<memDirs, disk, diskDirs, pages, scanFiles, scanDirs, suPage, suMd,
                 prePullFileKeys, notionTree, removedEntries, runs, suLoaded,
                 pulledNow, archivedNow, createdNow>>
  /\ UNCHANGED notStart

\* startupSync, lines 1405-1409: the keys of state.files are taken, and
\* fetchNotionTree(rootPageId) is answered.
StartupFetch(ok) ==
  /\ suPc = "fetchTree"
  /\ prePullFileKeys' = TrackedIn(memFiles)
  /\ runCalls' = Append(runCalls, Call("fetchNotionTree", 0))
  /\ IF ~ok
       THEN Rejects("fetchTree") /\ UNCHANGED <<notionTree, removedEntries, suIdx>>
       ELSE /\ notionTree' = treeOf(pages)
            /\ IF notionTree' # <<>>
                 THEN suIdx' = 1 /\ suPc' = "node" /\ UNCHANGED removedEntries
                 ELSE ToArchive(memFiles, TrackedIn(memFiles))
            /\ UNCHANGED <<failedAt, runLog, daemon>>
  /\ UNCHANGED <<stFile, stPersisted, memFiles, memDirs, disk, diskDirs, pages,
                 scanFiles, scanDirs, suPage, suMd, runs, suLoaded, pushedNow,
                 pulledNow, archivedNow, createdNow>>
  /\ UNCHANGED notStart

\* pullNotionOnly, one entry of the tree.  A directory that state.dirs lacks
\* is made and recorded; a tracked file is passed; for an untracked file
\* blocksToMd(node.id) is answered, and a blank markdown ends the entry.
StartupNode(ok) ==
  /\ suPc = "node"
  /\ LET node == notionTree[suIdx] IN
       IF node.kind = "dir"
         THEN /\ ok
              /\ memDirs' = [memDirs EXCEPT ![node.path] = IF @ = 0 THEN node.id ELSE @]
              /\ diskDirs' = IF memDirs[node.path] = 0 THEN diskDirs \cup {node.path}
                                                       ELSE diskDirs
              /\ NextNode(memFiles)
              /\ UNCHANGED <<runCalls, suMd, suPage, failedAt, runLog, daemon>>
         ELSE IF memFiles[node.path] # NoEntry
           THEN /\ ok
                /\ NextNode(memFiles)
                /\ UNCHANGED <<memDirs, diskDirs, runCalls, suMd, suPage, failedAt, runLog,
                               daemon>>
           ELSE /\ runCalls' = Append(runCalls, Call("blocksToMd", node.id))
                /\ UNCHANGED <<memDirs, diskDirs>>
                /\ IF ~ok
                     THEN Rejects("pull")
                          /\ UNCHANGED <<suMd, suPage, suIdx, removedEntries>>
                     ELSE LET md == toMarkdown(pages[node.id].blocks) IN
                          /\ UNCHANGED <<failedAt, runLog, daemon>>
                          /\ IF isBlank(md)
                               THEN NextNode(memFiles) /\ UNCHANGED <<suMd, suPage>>
                               ELSE /\ suMd' = md
                                    /\ suPage' = node.id
                                    /\ suPc' = "pullWrite"
                                    /\ UNCHANGED <<suIdx, removedEntries>>
  /\ UNCHANGED <<stFile, stPersisted, memFiles, disk, pages, scanFiles, scanDirs,
                 prePullFileKeys, notionTree, runs, suLoaded, pushedNow, pulledNow,
                 archivedNow, createdNow>>
  /\ UNCHANGED notStart

\* pullNotionOnly, lines 1343-1349: mkdir and writeFile.  (The poller-write
\* mark set around writeFile is read by the watcher only, which daemonChild
\* starts after startupSync has returned.)
StartupPullWrite ==
  /\ suPc = "pullWrite"
  /\ LET p == notionTree[suIdx].path IN
       /\ disk' = [disk EXCEPT ![p] = suMd]
       /\ diskDirs' = IF dirnameOf(p) = "." THEN diskDirs
                                            ELSE diskDirs \cup {dirnameOf(p)}
  /\ suPc' = "pullMeta"
  /\ UNCHANGED <<stFile, stPersisted, memFiles, memDirs, pages, scanFiles, scanDirs,
                 suIdx, suPage, suMd, prePullFileKeys, notionTree, removedEntries,
                 runCalls, runs, daemon, suLoaded, pushedNow, pulledNow, archivedNow,
                 createdNow, failedAt, runLog>>
  /\ UNCHANGED notStart

\* pullNotionOnly, lines 1351-1359: getPageMeta(node.id) is answered and the
\* FileState of the pulled file is recorded.
StartupPullMeta(ok) ==
  /\ suPc = "pullMeta"
  /\ runCalls' = Append(runCalls, Call("getPageMeta", suPage))
  /\ IF ~ok
       THEN Rejects("pull")
            /\ UNCHANGED <<memFiles, pulledNow, suIdx, removedEntries>>
       ELSE LET p == notionTree[suIdx].path
                files == [memFiles EXCEPT
                            ![p] = buildFileState(suPage, hashContent(suMd),
                                                  pages[suPage].ts)]
            IN /\ memFiles' = files
               /\ pulledNow' = pulledNow \cup {p}
               /\ NextNode(files)
               /\ UNCHANGED <<failedAt, runLog, daemon>>
  /\ UNCHANGED <<stFile, stPersisted, memDirs, disk, diskDirs, pages, scanFiles,
                 scanDirs, suPage, suMd, prePullFileKeys, notionTree, runs, suLoaded,
                 pushedNow, archivedNow, createdNow>>
  /\ UNCHANGED notStart

\* startupSync, lines 1417-1424: archivePage(fileState.notionPageId) is
\* answered and the entry is deleted from state.files.
StartupArchive(ok) ==
  /\ suPc = "archive"
  /\ LET p == removedEntries[suIdx]
         id == memFiles[p].page
     IN /\ runCalls' = Append(runCalls, Call("archivePage", id))
        /\ IF ~ok
             THEN Rejects("archive")
                  /\ UNCHANGED <<pages, memFiles, archivedNow, suIdx>>
             ELSE /\ pages' = [pages EXCEPT ![id].archived = TRUE]
                  /\ memFiles' = [memFiles EXCEPT ![p] = NoEntry]
                  /\ archivedNow' = archivedNow \cup {p}
                  /\ IF suIdx < Len(removedEntries)
                       THEN suIdx' = suIdx + 1 /\ UNCHANGED suPc
                       ELSE suIdx' = 0 /\ suPc' = "saveState"
                  /\ UNCHANGED <<failedAt, runLog, daemon>>
  /\ UNCHANGED <<stFile, stPersisted, memDirs, disk, diskDirs, scanFiles, scanDirs,
                 suPage, suMd, prePullFileKeys, notionTree, removedEntries, runs,
                 suLoaded, pushedNow, pulledNow, createdNow>>
  /\ UNCHANGED notStart

\* startupSync, lines 1426-1428, and daemonChild, lines 95-125: saveState,
\* the state is returned, and daemonChild starts the watcher and the webhook
\* server.
StartupSave ==
  /\ suPc = "saveState"
  /\ stPersisted' = [files |-> memFiles, dirs |-> memDirs]
  /\ stFile' = "valid"
  /\ suPc' = "returned"
  /\ daemon' = daemonAfter("returned")
  /\ runLog' = [runLog EXCEPT ![Len(runLog)].result = "returned"]
  /\ UNCHANGED <<memFiles, memDirs, disk, diskDirs, pages, scanFiles, scanDirs,
                 suIdx, suPage, suMd, prePullFileKeys, notionTree, removedEntries,
                 runCalls, runs, suLoaded, pushedNow, pulledNow, archivedNow,
                 createdNow, failedAt>>
  /\ UNCHANGED notStart

\* The daemon is stopped and started again: startupSync is called anew on
\* what the last start left on disk and in the workspace.
Restart ==
  /\ suPc \in {"returned", "rejected"}
  /\ runs < MaxRuns
  /\ suPc' = "load"
  /\ daemon' = "starting"
  /\ UNCHANGED <<stFile, stPersisted, memFiles, memDirs, disk, diskDirs, pages,
                 scanFiles, scanDirs, suIdx, suPage, suMd, prePullFileKeys,
                 notionTree, removedEntries, runCalls, runs, suLoaded, pushedNow,
                 pulledNow, archivedNow, createdNow, failedAt, runLog>>
  /\ UNCHANGED notStart

StartupNext ==
  \/ StartupLoad
  \/ \E ok \in BOOLEAN : StartupDir(ok)
  \/ \E ok \in BOOLEAN : StartupDirCreate(ok)
  \/ StartupFile
  \/ \E ok \in BOOLEAN : StartupSiblings(ok)
  \/ \E ok \in BOOLEAN : StartupUpdate(ok)
  \/ \E ok \in BOOLEAN : StartupCreate(ok)
  \/ \E ok \in BOOLEAN : StartupMeta(ok)
  \/ \E ok \in BOOLEAN : StartupFetch(ok)
  \/ \E ok \in BOOLEAN : StartupNode(ok)
  \/ StartupPullWrite
  \/ \E ok \in BOOLEAN : StartupPullMeta(ok)
  \/ \E ok \in BOOLEAN : StartupArchive(ok)
  \/ StartupSave
  \/ Restart

InitStartup ==
  /\ StartupInit
  /\ FastOff
  /\ RaceOff /\ EnsureOff
  /\ QueueOff
  /\ RetryOff
  /\ LockOff
  /\ SyncOff
  /\ UpdateOff
  /\ DebounceOff
  /\ HookOff

SpecStartup == InitStartup /\ [][StartupNext]_vars

\* ------------------------------------------------------------------------
\* Properties of the daemon's start
\* ------------------------------------------------------------------------

\* the number of the calls of `op` the call at hand has made
CallsOf(op) == Cardinality({k \in 1..Len(runCalls) : runCalls[k].op = op})

\* the calls that change the workspace
MutationOps == {"createPage", "updatePageContent", "archivePage"}

\* a call of startupSync that loaded no tracked file and scanned one file,
\* which is not blank
BrandNew(r) ==
  /\ r.fresh
  /\ Len(r.scanned) = 1
  /\ trim(r.texts[1]) # 0

BrandNewInRoot(r) ==
  /\ BrandNew(r)
  /\ dirnameOf(r.scanned[1]) = "."
  /\ r.remote = 0

Scanned == {scanFiles[k] : k \in 1..Len(scanFiles)}

\* C22: startupSync archives exactly the paths tracked before the pull of
\* the remote-only pages and absent from the scan: none that the pull
\* tracked, none that was scanned; the page of each is archived and its
\* entry gone from the state when the state is saved.
C22_ArchiveSet ==
  /\ suPc \in {"saveState", "returned"} =>
       /\ archivedNow = prePullFileKeys \ Scanned
       /\ archivedNow \cap pulledNow = {}
       /\ \A p \in archivedNow :
            /\ pages[suLoaded[p].page].archived
            /\ memFiles[p] = NoEntry
  /\ suPc = "returned" =>
       \A p \in archivedNow : stPersisted.files[p] = NoEntry

\* a start that pulled one file and archived another has returned
C22_Witness ==
  /\ suPc = "returned"
  /\ archivedNow # {}
  /\ pulledNow # {}

\* the file pages that hold path p in the workspace
RemoteOf(p) ==
  LET t == treeOf(pages) IN
    {t[k].id : k \in {j \in 1..Len(t) : t[j].kind = "leaf" /\ t[j].path = p}}

\* C24: a path that was untracked when the state was loaded stays untracked
\* while its file is empty or blank, and no page is created for it; it stays
\* untracked while its page converts to an empty or blank text, and no
\* file is written for it.
C24_BlankNeverTracked ==
  \A p \in StartPaths :
    (suPc # "load" /\ suLoaded[p] = NoEntry) =>
      /\ (disk[p] # Absent /\ trim(disk[p]) = 0) =>
           /\ memFiles[p] = NoEntry
           /\ p \notin pushedNow
           /\ \A n \in createdNow :
                ~(pages[n].title = titleFromPath(p)
                    /\ pages[n].parent = parentPageOf(p, memDirs))
      /\ (\E n \in RemoteOf(p) : trim(toMarkdown(pages[n].blocks)) = 0) =>
           /\ memFiles[p] = NoEntry
           /\ p \notin pulledNow
           /\ (p \notin Scanned => disk[p] = Absent)

\* a start has returned that found a blank file and a blank page, each
\* untracked, next to a page it pulled
C24_Witness ==
  /\ suPc = "returned"
  /\ \E p \in StartPaths : suLoaded[p] = NoEntry /\ disk[p] = 5 /\ memFiles[p] = NoEntry
  /\ \E p \in StartPaths :
       /\ suLoaded[p] = NoEntry
       /\ p \notin Scanned
       /\ \E n \in RemoteOf(p) : pages[n].blocks = 5
  /\ pushedNow # {}

\* the steps in which startupSync ensures directory pages and pushes files
PushSteps == {"dir", "file"}

\* C25: when a remote call fails while startupSync ensures the directory
\* pages or pushes the files, startupSync rejects, neither the pull of the
\* remote-only pages nor the archive step nor the last saveState runs, and
\* the daemon starts neither the watcher nor the webhook server.
C25_PushFailureAborts ==
  (failedAt \in PushSteps /\ suPc # "load") =>
    /\ suPc = "rejected"
    /\ runLog[Len(runLog)].result = "rejected"
    /\ daemon = "exited"
    /\ \A k \in 1..Len(runCalls) :
         runCalls[k].op \notin {"fetchNotionTree", "blocksToMd", "archivePage"}
    /\ prePullFileKeys = {}
    /\ notionTree = <<>>
    /\ pulledNow = {}
    /\ archivedNow = {}

\* a start has pushed one file and failed on the next
C25_Witness ==
  /\ suPc = "rejected"
  /\ failedAt = "file"
  /\ pushedNow # {}

\* C26: a failure for one item of the pull of the remote-only pages or of
\* the archive step does not abort startupSync.
C26_ItemIsolation ==
  failedAt \in {"pull", "archive"} => suPc # "rejected"

\* C28: with no state file startupSync goes on with a fresh state; with
\* a state file that does not parse it rejects, the daemon exits, and the
\* file is never replaced nor a page created or changed.
C28_LoadState ==
  [][/\ (suPc = "load" /\ suPc' # "load" /\ stFile = "absent") =>
          (suPc' # "rejected" /\ TrackedIn(memFiles') = {})
     /\ (suPc = "load" /\ suPc' # "load" /\ stFile = "corrupt") =>
          (suPc' = "rejected" /\ daemon' = "exited")
     /\ stFile = "corrupt" => (stFile' = "corrupt" /\ pages' = pages)]_vars

\* ------------------------------------------------------------------------
\* syncFile with the fingerprint of the file (mtime, size)
\* ------------------------------------------------------------------------

\* the mtimes a file can have
Mtimes == {1, 2}

\* stat(absFile).size: the empty text, a text of one blank, a paragraph
\* "x" or "y"
sizeOf(t) == CASE t = 0 -> 0 [] t = 5 -> 1 [] OTHER -> 2

\* the fingerprint stat gives for a file
statOf(file) == [mtime |-> file.mtime, size |-> sizeOf(file.text)]

\* a fast path that looks at the mtime only
fastPathHitOnMtime(existing, finger, st) ==
  existing # NoEntry /\ finger.mtime # NotSet /\ finger.mtime = st.mtime

\* the fast path of syncFile: a stored FileState has both localMtime and
\* localSize set, and they equal the current values
fastPathHit(existing, finger, st) ==
  /\ existing # NoEntry
  /\ finger.mtime # NotSet
  /\ finger.size # NotSet
  /\ finger.mtime = st.mtime
  /\ finger.size = st.size

\* The path is untracked, or was synced when the file held c0 with mtime
\* m0; states written before the fingerprint was introduced lack the two
\* fields.  The file holds any text now.
FastInit ==
  /\ \E tracked \in BOOLEAN, c0 \in {1, 3}, m \in Mtimes \cup {NotSet},
        hasSize \in BOOLEAN :
       /\ fpEntry = IF tracked THEN buildFileState(1, hashContent(c0), 1) ELSE NoEntry
       /\ fpFinger = IF tracked
                       THEN [mtime |-> m,
                             size |-> IF hasSize THEN sizeOf(c0) ELSE NotSet]
                       ELSE [mtime |-> NotSet, size |-> NotSet]
  /\ \E t \in StartTexts, m \in Mtimes : fpFile = [text |-> t, mtime |-> m]
  /\ fpPc = "idle"
  /\ fpStat = [mtime |-> NotSet, size |-> NotSet]
  /\ fpCalls = <<>>
  /\ fpEntry0 = fpEntry
  /\ fpFinger0 = fpFinger
  /\ fpRuns = 0

\* syncFile is called for the path: stat is called.
FastCall ==
  /\ fpPc \in {"idle", "returned"}
  /\ fpRuns < MaxFastCalls
  /\ fpRuns' = fpRuns + 1
  /\ fpPc' = "stat"
  /\ fpCalls' = <<>>
  /\ fpEntry0' = fpEntry
  /\ fpFinger0' = fpFinger
  /\ UNCHANGED <<fpEntry, fpFinger, fpStat, fpFile>>
  /\ UNCHANGED notFast

\* stat is answered; on the fast path syncFile returns, else readFile is
\* called.
FastStat ==
  /\ fpPc = "stat"
  /\ fpStat' = statOf(fpFile)
  /\ fpCalls' = Append(fpCalls, "stat")
  /\ fpPc' = IF fastPathHit(fpEntry, fpFinger, statOf(fpFile)) THEN "returned"
                                                                ELSE "readFile"
  /\ UNCHANGED <<fpEntry, fpFinger, fpFile, fpEntry0, fpFinger0, fpRuns>>
  /\ UNCHANGED notFast

\* syncFile, lines 1200-1223: readFile is answered; for a blank text and
\* for a text with the stored hash syncFile returns, else the page is
\* updated or created.
FastRead ==
  /\ fpPc = "readFile"
  /\ fpCalls' = Append(fpCalls, "readFile")
  /\ fpPc' = IF isBlank(fpFile.text)
                  \/ unchanged(fpEntry, hashContent(fpFile.text))
               THEN "returned" ELSE "push"
  /\ UNCHANGED <<fpEntry, fpFinger, fpStat, fpFile, fpEntry0, fpFinger0, fpRuns>>
  /\ UNCHANGED notFast

\* syncFile, lines 1249-1291: updatePageContent for a tracked path,
\* getChildPages and createPage for an untracked one (no page of its title
\* exists), getPageMeta; the FileState is written with the hash and the
\* fingerprint stat gave, and saveState is called.
FastPush ==
  /\ fpPc = "push"
  /\ fpCalls' = fpCalls \o (IF fpEntry # NoEntry
                              THEN <<"updatePageContent">>
                              ELSE <<"getChildPages", "createPage">>)
                        \o <<"getPageMeta", "saveState">>
  /\ fpEntry' = buildFileState(1, hashContent(fpFile.text), fpEntry.ts + 1)
  /\ fpFinger' = fpStat
  /\ fpPc' = "returned"
  /\ UNCHANGED <<fpStat, fpFile, fpEntry0, fpFinger0, fpRuns>>
  /\ UNCHANGED notFast

\* The user saves the file between two calls: a text, and a later mtime or
\* (a save within the clock's resolution, or a restored mtime) the same.
FastTouch(t, m) ==
  /\ fpPc = "returned"
  /\ fpRuns < MaxFastCalls
  /\ fpFile # [text |-> t, mtime |-> m]
  /\ fpFile' = [text |-> t, mtime |-> m]
  /\ fpPc' = "idle"
  /\ UNCHANGED <<fpEntry, fpFinger, fpStat, fpCalls, fpEntry0, fpFinger0, fpRuns>>
  /\ UNCHANGED notFast

FastNext ==
  \/ FastCall
  \/ FastStat
  \/ FastRead
  \/ FastPush
  \/ \E t \in StartTexts, m \in Mtimes : FastTouch(t, m)

InitFast ==
  /\ FastInit
  /\ QueueOff
  /\ RetryOff
  /\ LockOff
  /\ SyncOff
  /\ UpdateOff
  /\ DebounceOff
  /\ HookOff
  /\ StartupOff
  /\ RaceOff /\ EnsureOff

SpecFastPath == InitFast /\ [][FastNext]_vars

\* the calls of the call at hand that go to the remote store
RemoteCalls ==
  {k \in 1..Len(fpCalls) :
     fpCalls[k] \in {"updatePageContent", "getChildPages", "createPage", "getPageMeta"}}

\* the stored fingerprint of the path was set and was the file's when the
\* call at hand began
FingerprintHeld ==
  /\ fpEntry0 # NoEntry
  /\ fpFinger0.mtime # NotSet
  /\ fpFinger0.size # NotSet
  /\ fpFinger0.mtime = fpFile.mtime
  /\ fpFinger0.size = sizeOf(fpFile.text)

RaceDir == "d"

\* titleFromPath of the files
raceTitle(f) == IF f = "d/a.md" THEN "a" ELSE "b"

\* The files were saved in a directory that state.dirs does not hold; no
\* file is tracked.  The workspace holds nothing, or (the state was lost)
\* the page of the directory, or that page and the page of d/a.md.
RaceInit ==
  /\ rcPages \in {<<>>,
                  <<[title |-> RaceDir, parent |-> 0]>>,
                  <<[title |-> RaceDir, parent |-> 0], [title |-> "a", parent |-> 1]>>}
  /\ rcPc = [f \in RaceFiles |-> "idle"]
  /\ rcParent = [f \in RaceFiles |-> 0]
  /\ rcPage = [f \in RaceFiles |-> 0]
  /\ rcDirs = 0
  /\ rcFiles = [f \in RaceFiles |-> 0]
  /\ rcQueue = <<>>

\* the child pages of a page, as getChildPages lists them
raceChildren(parent) ==
  SelectSeq([i \in 1..Len(rcPages) |-> i], LAMBDA i : rcPages[i].parent = parent)

\* .find((c) => c.title === title): the id, 0 for undefined
raceFind(ids, title) ==
  IF \E k \in 1..Len(ids) : rcPages[ids[k]].title = title
    THEN ids[CHOOSE k \in 1..Len(ids) :
               /\ rcPages[ids[k]].title = title
               /\ \A l \in 1..(k - 1) : rcPages[ids[l]].title # title]
    ELSE 0

\* the call of f at the head of the request queue is answered (queue.ts)
Answered(f) == rcQueue # <<>> /\ Head(rcQueue) = f

\* The debounce timer of f fires: guardedSync(relPath, ...) finds no sync
\* of this path in flight (syncing holds paths; the syncs of other paths do
\* not count) and calls runWatcher and syncFile, which calls readFile.
RaceStart(f) ==
  /\ rcPc[f] = "idle"
  /\ rcPc' = [rcPc EXCEPT ![f] = "readFile"]
  /\ UNCHANGED <<rcParent, rcPage, rcPages, rcDirs, rcFiles, rcQueue>>
  /\ UNCHANGED notRace

\* syncFile, lines 1200-1247, and ensureDirPage, lines 1146-1165: the file
\* is read (it is not blank and not tracked); with the directory in
\* state.dirs the siblings of the file are asked for, else the children of
\* the root page.
RaceRead(f) ==
  /\ rcPc[f] = "readFile"
  /\ IF rcDirs # 0
       THEN /\ rcParent' = [rcParent EXCEPT ![f] = rcDirs]
            /\ rcPc' = [rcPc EXCEPT ![f] = "siblings"]
       ELSE /\ rcPc' = [rcPc EXCEPT ![f] = "dirList"]
            /\ UNCHANGED rcParent
  /\ rcQueue' = Append(rcQueue, f)
  /\ UNCHANGED <<rcPage, rcPages, rcDirs, rcFiles>>
  /\ UNCHANGED notRace

\* ensureDirPage, lines 1163-1187: getChildPages(parentPageId) is answered;
\* a child with the directory's title is reused and recorded, else
\* createPage is called.
RaceDirList(f) ==
  /\ rcPc[f] = "dirList"
  /\ Answered(f)
  /\ LET existing == raceFind(raceChildren(0), RaceDir) IN
       IF existing # 0
         THEN /\ rcDirs' = existing
              /\ rcParent' = [rcParent EXCEPT ![f] = existing]
              /\ rcPc' = [rcPc EXCEPT ![f] = "siblings"]
         ELSE /\ rcPc' = [rcPc EXCEPT ![f] = "dirCreate"]
              /\ UNCHANGED <<rcDirs, rcParent>>
  /\ rcQueue' = Append(Tail(rcQueue), f)
  /\ UNCHANGED <<rcPage, rcPages, rcFiles>>
  /\ UNCHANGED notRace

\* ensureDirPage, lines 1177-1189: createPage(parentPageId, title, []) is
\* answered, the directory is recorded; syncFile asks for the siblings of
\* the file.
RaceDirCreate(f) ==
  /\ rcPc[f] = "dirCreate"
  /\ Answered(f)
  /\ rcPages' = Append(rcPages, [title |-> RaceDir, parent |-> 0])
  /\ rcDirs' = Len(rcPages) + 1
  /\ rcParent' = [rcParent EXCEPT ![f] = Len(rcPages) + 1]
  /\ rcPc' = [rcPc EXCEPT ![f] = "siblings"]
  /\ rcQueue' = Append(Tail(rcQueue), f)
  /\ UNCHANGED <<rcPage, rcFiles>>
  /\ UNCHANGED notRace

\* syncFile, lines 1266-1281: getChildPages(parentPageId) is answered; a
\* page with the file's title is reused (updatePageContent), else
\* createPage is called.
RaceSiblings(f) ==
  /\ rcPc[f] = "siblings"
  /\ Answered(f)
  /\ LET match == raceFind(raceChildren(rcParent[f]), raceTitle(f)) IN
       IF match # 0
         THEN /\ rcPage' = [rcPage EXCEPT ![f] = match]
              /\ rcPc' = [rcPc EXCEPT ![f] = "update"]
         ELSE /\ rcPc' = [rcPc EXCEPT ![f] = "create"]
              /\ UNCHANGED rcPage
  /\ rcQueue' = Append(Tail(rcQueue), f)
  /\ UNCHANGED <<rcParent, rcPages, rcDirs, rcFiles>>
  /\ UNCHANGED notRace

\* syncFile, lines 1273-1283: updatePageContent is answered; getPageMeta is
\* called.
RaceUpdate(f) ==
  /\ rcPc[f] = "update"
  /\ Answered(f)
  /\ rcPc' = [rcPc EXCEPT ![f] = "meta"]
  /\ rcQueue' = Append(Tail(rcQueue), f)
  /\ UNCHANGED <<rcParent, rcPage, rcPages, rcDirs, rcFiles>>
  /\ UNCHANGED notRace

\* syncFile, lines 1280-1283: createPage(parentPageId, title, blocks) is
\* answered; getPageMeta is called.
RaceCreate(f) ==
  /\ rcPc[f] = "create"
  /\ Answered(f)
  /\ rcPages' = Append(rcPages, [title |-> raceTitle(f), parent |-> rcParent[f]])
  /\ rcPage' = [rcPage EXCEPT ![f] = Len(rcPages) + 1]
  /\ rcPc' = [rcPc EXCEPT ![f] = "meta"]
  /\ rcQueue' = Append(Tail(rcQueue), f)
  /\ UNCHANGED <<rcParent, rcDirs, rcFiles>>
  /\ UNCHANGED notRace

\* syncFile, lines 1283-1291: getPageMeta is answered, the FileState is
\* recorded and the state saved; guardedSync removes the key.
RaceMeta(f) ==
  /\ rcPc[f] = "meta"
  /\ Answered(f)
  /\ rcFiles' = [rcFiles EXCEPT ![f] = rcPage[f]]
  /\ rcPc' = [rcPc EXCEPT ![f] = "done"]
  /\ rcQueue' = Tail(rcQueue)
  /\ UNCHANGED <<rcParent, rcPage, rcPages, rcDirs>>
  /\ UNCHANGED notRace

RaceNext ==
  \/ \E f \in RaceFiles : RaceStart(f)
  \/ \E f \in RaceFiles : RaceRead(f)
  \/ \E f \in RaceFiles : RaceDirList(f)
  \/ \E f \in RaceFiles : RaceDirCreate(f)
  \/ \E f \in RaceFiles : RaceSiblings(f)
  \/ \E f \in RaceFiles : RaceUpdate(f)
  \/ \E f \in RaceFiles : RaceCreate(f)
  \/ \E f \in RaceFiles : RaceMeta(f)

InitRace ==
  /\ RaceInit
  /\ QueueOff
  /\ RetryOff
  /\ LockOff
  /\ SyncOff
  /\ UpdateOff
  /\ DebounceOff
  /\ HookOff
  /\ StartupOff
  /\ FastOff
  /\ EnsureOff

SpecDirRace == InitRace /\ [][RaceNext]_vars

\* the pages of the directory under the root page
DirPages == {n \in 1..Len(rcPages) : rcPages[n].title = RaceDir /\ rcPages[n].parent = 0}

\* C30: whatever the interleaving of the watcher syncs of files of one
\* directory that state.dirs lacks, at most one page exists for the
\* directory, and the pages of the files lie under the same parent page.
C30_OneDirPage ==
  /\ Cardinality(DirPages) <= 1
  /\ \A f, g \in RaceFiles :
       (rcFiles[f] # 0 /\ rcFiles[g] # 0) =>
         rcPages[rcFiles[f]].parent = rcPages[rcFiles[g]].parent

\* ------------------------------------------------------------------------
\* The request queue with task functions that settle and timers that fire
\* ------------------------------------------------------------------------

\* Every fn() that was called settles, the sleep of the drain loop ends, and
\* time passes.
QueueFairness ==
  /\ WF_vars(\E t \in TaskIds, what \in FnOutcomes : TaskSettles(t, what))
  /\ WF_vars(SleepEnds)
  /\ WF_vars(QueueClock)

SpecQueueFair == InitQueue /\ [][QueueNext]_vars /\ QueueFairness

\* C40: every task passed to enqueue is started and its promise settles in
\* the end, whatever the interleaving of the enqueue calls with the drain
\* loop; and whenever processing is false the queue is empty.
C40_QueueLiveness ==
  /\ [](~processing => queue = <<>>)
  /\ \A t \in TaskIds :
       (t < nextTask) ~>
         (settled[t] # "pending" /\ \E i \in 1..Len(started) : started[i] = t)

\* all the tasks have settled, and enqueue has been called with the drain
\* loop absent, awaiting a task and asleep
C40_Witness ==
  /\ nextTask > MaxTasks
  /\ \A t \in TaskIds : settled[t] # "pending"
  /\ enqWhile = {"none", "task", "sleep"}
  /\ ~processing

\* ------------------------------------------------------------------------
\* The count of the sync lock
\* ------------------------------------------------------------------------

\* the runWatcher calls in flight
RunWatcherCalls == UNION {{<<k, i>> : i \in 1..Len(inFlight[k])} : k \in Keys}

\* C39: watcherActive is the number of the runWatcher calls in flight: it is
\* never negative and is zero when no watcher sync is in flight, whether the
\* syncs before fulfilled or rejected.
C39_ActiveCount ==
  /\ watcherActive = Cardinality(RunWatcherCalls)
  /\ watcherActive >= 0
  /\ RunWatcherCalls = {} => ~isWatcherActive

\* the syncs of two paths are in flight at once
C39_Witness ==
  /\ watcherActive = 2
  /\ Cardinality({k \in Keys : inFlight[k] # <<>>}) = 2

\* ------------------------------------------------------------------------
\* The edit script of diffBlocks
\* ------------------------------------------------------------------------

\* the members of a set of numbers, in rising order
RECURSIVE Rising(_)
Rising(S) ==
  IF S = {} THEN <<>>
  ELSE LET least == CHOOSE x \in S : \A y \in S : x <= y
       IN  <<least>> \o Rising(S \ {least})

\* the lengths of the common subsequences of old and new under blocksMatch
CommonLengths(old, new) ==
  {Cardinality(S) : S \in
     {S \in SUBSET (1..Len(old)) :
        \E T \in SUBSET (1..Len(new)) :
          /\ Cardinality(T) = Cardinality(S)
          /\ \A k \in 1..Cardinality(S) :
               blocksMatch(old[Rising(S)[k]].block, new[Rising(T)[k]])}}

\* the length of a longest common subsequence
LcsLength(old, new) ==
  CHOOSE n \in CommonLengths(old, new) : \A k \in CommonLengths(old, new) : k <= n

\* the ops that account for an old block, and those that account for a new
\* block, in the order of the script
OldSide(o) == SelectSeq(o, LAMBDA op : op.type \in {"keep", "delete", "update"})
NewSide(o) == SelectSeq(o, LAMBDA op : op.type \in {"keep", "insert", "update"})

\* C37. The keep ops of diffBlocks(old, new) are as many as a longest common
\* subsequence of old and new under blocksMatch is long; the keep, delete
\* and update ops name the old blocks, each once and in page order; the
\* keep, insert and update ops account for the new blocks, each once and in
\* order: a keep for a new block its old block matches, an insert or update
\* carrying the new block.
C37_MinimalEditScript ==
  DiffTaken =>
    LET olds == OldSide(diffOps)
        news == NewSide(diffOps)
    IN  /\ Len(SelectSeq(diffOps, LAMBDA op : op.type = "keep"))
             = LcsLength(existingBlocks, upBlocks)
        /\ Len(olds) = Len(existingBlocks)
        /\ \A k \in 1..Len(olds) :
             k <= Len(existingBlocks) => olds[k].blockId = existingBlocks[k].id
        /\ Len(news) = Len(upBlocks)
        /\ \A k \in 1..Len(news) :
             k <= Len(upBlocks) =>
               IF news[k].type = "keep"
                 THEN blocksMatch(FindBlock(existingBlocks, news[k].blockId).block,
                                  upBlocks[k])
                 ELSE news[k].newBlock = upBlocks[k]

\* C37 witness: a script over a full page with a keep, an update and an
\* insert, where the longest common subsequence is shorter than the page
C37_Witness ==
  /\ DiffTaken
  /\ Len(existingBlocks) = MaxOld
  /\ LcsLength(existingBlocks, upBlocks) < MaxOld
  /\ \E k \in 1..Len(diffOps) : diffOps[k].type = "keep"
  /\ \E k \in 1..Len(diffOps) : diffOps[k].type = "update"
  /\ \E k \in 1..Len(diffOps) : diffOps[k].type = "insert"

\* ------------------------------------------------------------------------
\* The mutation calls of updatePageContent
\* ------------------------------------------------------------------------

\* the calls that change the page, in the order they were issued
MutationCalls == SelectSeq(apiCalls, LAMBDA c : c.call # "list")

\* the ops that stand for a change, in the order of the diff
NonKeep(o) == SelectSeq(o, LAMBDA op : op.type # "keep")

\* the call is the one the op asks for
CallOfOp(c, op) ==
  CASE op.type = "delete" -> c.call = "delete" /\ c.id = op.blockId
    [] op.type = "update" -> c.call = "update" /\ c.id = op.blockId /\ c.block = op.newBlock
    [] op.type = "insert" -> c.call = "append" /\ c.block = op.newBlock
    [] OTHER -> FALSE

\* the calls of the fallback, the ids the appends get left open
CallOfFallback(c, k) ==
  IF k <= Len(existingBlocks)
    THEN c = DeleteCall(existingBlocks[k].id)
    ELSE /\ k - Len(existingBlocks) <= Len(upBlocks)
         /\ c.call = "append"
         /\ c.block = upBlocks[k - Len(existingBlocks)]

\* C35. Within one updatePageContent call at most one mutation call is
\* outstanding at any time, and the mutation calls are issued in the order
\* of the diff ops: the k-th mutation call is the call of the k-th non-keep
\* op; in the fallback the calls are a delete for each listed block, in
\* order, and then an append for each desired block, in order.
C35_OneAtATimeInOrder ==
  /\ upInFlight \in {0, 1}
  /\ upInFlight <= Len(MutationCalls)
  /\ DiffTaken =>
       IF hasLeadingInsert(diffOps)
         THEN \A k \in 1..Len(MutationCalls) : CallOfFallback(MutationCalls[k], k)
         ELSE /\ Len(MutationCalls) <= Len(NonKeep(diffOps))
              /\ \A k \in 1..Len(MutationCalls) :
                   k <= Len(NonKeep(diffOps)) =>
                     CallOfOp(MutationCalls[k], NonKeep(diffOps)[k])
  /\ upPc = "returned" => upInFlight = 0

\* C35 witness: outside the fallback the third mutation call of a call is
\* outstanding, after calls of another kind
C35_Witness ==
  /\ upPc = "ops"
  /\ ~hasLeadingInsert(diffOps)
  /\ upInFlight = 1
  /\ Len(MutationCalls) >= 3
  /\ \E k \in 1..Len(MutationCalls) : MutationCalls[k].call # MutationCalls[1].call

\* the ids of the blocks the diff keeps
KeptIds == {diffOps[k].blockId : k \in {l \in 1..Len(diffOps) : diffOps[l].type = "keep"}}

\* C36. When the first op is not an insert, or no op is a keep: no delete
\* or update call names a block the diff keeps, the kept blocks stay on the
\* page as they were listed, there are no more mutation calls than non-keep
\* ops and no more appends than insert ops; and when every listed block
\* matches the desired block at its position the list is the only call.
C36_KeptBlocksUntouched ==
  /\ DiffTaken
  /\ ~(diffOps # <<>> /\ diffOps[1].type = "insert" /\ KeptIds # {})
  => /\ \A k \in 1..Len(MutationCalls) :
          MutationCalls[k].call \in {"delete", "update"} =>
            MutationCalls[k].id \notin KeptIds
     /\ \A id \in KeptIds :
          /\ PositionOf(upPage, id) # 0
          /\ upPage[PositionOf(upPage, id)] = FindBlock(existingBlocks, id)
     /\ Len(MutationCalls) <= Len(NonKeep(diffOps))
     /\ Len(SelectSeq(apiCalls, LAMBDA c : c.call = "append"))
          <= Len(SelectSeq(diffOps, LAMBDA op : op.type = "insert"))
     /\ (/\ Len(existingBlocks) = Len(upBlocks)
         /\ \A k \in 1..Len(existingBlocks) :
              k <= Len(upBlocks) => blocksMatch(existingBlocks[k].block, upBlocks[k]))
        => apiCalls = <<ListCall>>

\* C36 witness: a call has returned that kept a block and made calls for
\* the ops after it
C36_Witness ==
  /\ upPc = "returned"
  /\ diffOps # <<>>
  /\ diffOps[1].type = "keep"
  /\ Len(NonKeep(diffOps)) >= 2
  /\ Len(MutationCalls) = Len(NonKeep(diffOps))

\* ------------------------------------------------------------------------
\* syncDeleteFile against a remote store that may refuse
\* ------------------------------------------------------------------------

\* syncDeleteFile, line 1445: archivePage rejects; syncDeleteFile rejects
\* with it, and runWatcher and guardedSync run their finally clauses.
SyncArchiveFails(p) ==
  /\ rq # <<>> /\ Head(rq) = p
  /\ wPc[p] = "archivePage"
  /\ stateFiles' = [stateFiles EXCEPT ![p] = entryAfterArchive(stateFiles[p], "rejected")]
  /\ rq' = Tail(rq)
  /\ Finish(p)
  /\ UNCHANGED <<localFile, fileKeys, persisted, remote, pullVars, historyVars>>
  /\ UNCHANGED <<pollerWriting, clearTimers, notSync>>

\* The files of the paths in T are tracked, the other files are not.
DeleteInit ==
  /\ localFile = [p \in Paths |-> 1]
  /\ \E T \in SUBSET Paths :
       /\ stateFiles = [p \in Paths |->
                          IF p \in T
                            THEN buildFileState(
                                   CHOOSE n \in 1..Len(InitialKeys) : InitialKeys[n] = p,
                                   hashContent(1), 1)
                            ELSE NoEntry]
       /\ fileKeys = SelectSeq(InitialKeys, LAMBDA k : k \in T)
  /\ persisted = stateFiles
  /\ remote = RemoteAtRest
  /\ timers = [p \in Paths |-> "none"]
  /\ syncing = {}
  /\ pending = [p \in Paths |-> "none"]
  /\ wPc = [p \in Paths |-> "idle"]
  /\ wPage = [p \in Paths |-> 0]
  /\ wText = [p \in Paths |-> 0]
  /\ wPlan = [p \in Paths |-> <<>>]
  /\ rq = <<>>
  /\ pullPc = "idle"
  /\ pullEntries = <<>>
  /\ pullIdx = 0
  /\ pullTs = 0
  /\ pullMd = 0
  /\ lastPullEntry = "none"
  /\ pullErrors = {}
  /\ unsynced = {}
  /\ localEdits = 0
  /\ remoteEdits = 0
  /\ pullCalls = 0

DeleteNext ==
  \/ \E p \in Paths : UserUnlink(p)
  \/ \E p \in Paths : DebounceFires(p)
  \/ \E p \in Paths : SyncArchive(p)
  \/ \E p \in Paths : SyncArchiveFails(p)
  \/ \E p \in Paths : SyncSave(p)

InitDelete ==
  /\ DeleteInit
  /\ QueueOff
  /\ RetryOff
  /\ LockOff
  /\ UpdateOff
  /\ DebounceOff
  /\ HookOff
  /\ StartupOff /\ FastOff /\ RaceOff /\ EnsureOff

SpecDelete == InitDelete /\ [][DeleteNext]_vars

\* C33. A syncDeleteFile of an untracked path puts no call in the queue and
\* changes neither the remote store, nor the state, nor the state file.  For
\* a tracked path the entry goes only in the step in which its page is
\* archived, the state file changes only with the page archived, and when
\* archivePage rejects the entry stays and nothing is written.
C33_DeleteFile ==
  [][\A p \in Paths :
       /\ (/\ timers[p] = "syncDeleteFile"
           /\ timers'[p] = "none"
           /\ p \notin syncing
           /\ stateFiles[p] = NoEntry)
          => /\ rq' = rq
             /\ remote' = remote
             /\ stateFiles' = stateFiles
             /\ persisted' = persisted
             /\ wPc'[p] = "idle"
       /\ stateFiles'[p] # stateFiles[p]
          => /\ stateFiles'[p] = NoEntry
             /\ ~remote[stateFiles[p].page].archived
             /\ remote'[stateFiles[p].page].archived
             /\ persisted' = persisted
       /\ persisted'[p] # persisted[p]
          => /\ persisted'[p] = NoEntry
             /\ remote[persisted[p].page].archived
       /\ (wPc[p] = "archivePage" /\ wPc'[p] = "idle")
          => /\ stateFiles'[p] = stateFiles[p]
             /\ stateFiles[p] # NoEntry
             /\ persisted' = persisted
             /\ remote' = remote]_vars

\* C33 witness: syncDeleteFile has archived the page of one path and
\* written the state file without its entry, and it has rejected for
\* another path, whose entry and page are as they were.
C33_Witness ==
  /\ \A p \in Paths : wPc[p] = "idle" /\ timers[p] = "none"
  /\ localEdits >= 2
  /\ \E p \in Paths :
       /\ localFile[p] = Absent
       /\ stateFiles[p] = NoEntry
       /\ persisted[p] = NoEntry
       /\ remote[CHOOSE n \in 1..Len(InitialKeys) : InitialKeys[n] = p].archived
  /\ \E p \in Paths :
       /\ localFile[p] = Absent
       /\ stateFiles[p] # NoEntry
       /\ ~remote[stateFiles[p].page].archived

\* ------------------------------------------------------------------------
\* User edits beside a pull of pages that other clients have edited
\* ------------------------------------------------------------------------

InitEdit ==
  /\ PullInit
  /\ QueueOff
  /\ RetryOff
  /\ LockOff
  /\ UpdateOff
  /\ DebounceOff
  /\ HookOff
  /\ StartupOff /\ FastOff /\ RaceOff /\ EnsureOff

SpecEdit == InitEdit /\ [][SyncNext]_vars

\* no timer is pending, no sync is in flight or parked, no pull pass runs
\* and no path is marked
Quiet ==
  /\ AtRest
  /\ \A p \in Paths : pending[p] = "none"
  /\ pollerWriting = {}

\* C38. Every add or change event of a user edit of an .md path is followed
\* by a syncFile of the path that starts after the event: once the events
\* have stopped and the watcher, the queue and the pull pass have come to
\* rest, no path is left with a user edit after whose event no syncFile has
\* started, also when the event came within 2 s of a pull write of the path.
C38_EditsPushed == Quiet => unsynced = {}

\* ------------------------------------------------------------------------
\* The pages of the tracked paths
\* ------------------------------------------------------------------------

\* C31. No two entries of the state carry the same page id: not two files,
\* not two directories, and not a file and a directory (d.md and d under
\* the root).
C31_DistinctPages ==
  /\ \A p, q \in TrackedIn(memFiles) : p # q => memFiles[p].page # memFiles[q].page
  /\ \A d, e \in StartDirs : d # e /\ memDirs[d] # 0 => memDirs[d] # memDirs[e]
  /\ \A p \in TrackedIn(memFiles), d \in StartDirs :
       memDirs[d] # 0 => memFiles[p].page # memDirs[d]

\* ------------------------------------------------------------------------
\* syncFile: the FileState, the state file and the page of a file
\* ------------------------------------------------------------------------

\* syncFile is at work on a file
InSyncFile == suPc \in {"file", "siblings", "update", "create", "meta"}

\* no two listed pages with one parent have the same title
OnePagePerTitle ==
  \A n, m \in 1..Len(pages) :
    /\ n # m
    /\ ~pages[n].archived
    /\ ~pages[m].archived
    /\ pages[n].parent = pages[m].parent
    => pages[n].title # pages[m].title

\* C32. syncFile changes the FileState of a file only in the step in which
\* getPageMeta is answered for the page the call before it updated or
\* created, and writes the state file in that step, before it returns;
\* syncFile writes the state file at no other point; a syncFile that rejects
\* leaves every FileState and the state file as they were; and since a later
\* syncFile finds the page by its title, no parent ever lists two pages with
\* one title.
C32_FileStateAfterSuccess ==
  /\ [][\A p \in StartPaths :
          InSyncFile /\ memFiles'[p] # memFiles[p] =>
            /\ suPc = "meta"
            /\ p = scanFiles[suIdx]
            /\ runCalls # <<>>
            /\ runCalls[Len(runCalls)] \in {Call("updatePageContent", suPage),
                                            Call("createPage", suPage)}
            /\ runCalls' = Append(runCalls, Call("getPageMeta", suPage))
            /\ memFiles'[p].page = suPage
            /\ stPersisted' = [files |-> memFiles', dirs |-> memDirs']
            /\ stFile' = "valid"
            /\ suPc' # "rejected"]_vars
  /\ [][InSyncFile /\ (stPersisted' # stPersisted \/ stFile' # stFile) =>
          /\ suPc = "meta"
          /\ suPc' # "rejected"]_vars
  /\ [][InSyncFile /\ suPc' = "rejected" =>
          /\ memFiles' = memFiles
          /\ stPersisted' = stPersisted
          /\ stFile' = stFile]_vars
  /\ []OnePagePerTitle

\* C32 witness: the first start, with no state and no page, created the
\* page of a.md and rejected at getPageMeta; the second start has pushed
\* a.md to that page without creating a page.
C32_Witness ==
  /\ runs = 2
  /\ Len(runLog) = 2
  /\ runLog[1].fresh
  /\ runLog[1].remote = 0
  /\ runLog[1].result = "rejected"
  /\ "a.md" \in pushedNow
  /\ createdNow = {}
  /\ \A n \in 1..Len(pages) : pages[n].title = "a" => memFiles["a.md"].page = n
  /\ suPc = "returned"

\* ------------------------------------------------------------------------
\* sync.ts: ensureDirPage and syncFile over nested directories
\* ------------------------------------------------------------------------

\* the file under the inner directory; it is not blank
EnsureFile == "d/e/x.md"

\* dirname
enDirname(p) == IF p = "d" THEN "." ELSE IF p = "d/e" THEN "d" ELSE "d/e"

\* basename(dirRelPath), titleFromPath(relPath)
enBasename(p) == IF p = "d" THEN "d" ELSE IF p = "d/e" THEN "e" ELSE "x"

\* a call in progress: its path, the await it is at, parentPageId and pageId
Frame(path, pc, parent, page) == [path |-> path, pc |-> pc, parent |-> parent, page |-> page]

\* getChildPages(parentPageId): the ids of the child pages, in page order
enChildren(parent) ==
  SelectSeq([i \in 1..Len(enPages) |-> i], LAMBDA i : enPages[i].parent = parent)

\* a lookup that finds nothing
enFindNever(ids, title) == 0

\* siblings.find((c) => c.title === title): the id, 0 for undefined
enFind(ids, title) ==
  IF \E k \in 1..Len(ids) : enPages[ids[k]].title = title
    THEN ids[CHOOSE k \in 1..Len(ids) :
               /\ enPages[ids[k]].title = title
               /\ \A l \in 1..(k - 1) : enPages[ids[l]].title # title]
    ELSE 0

\* The worlds a call can find.  Of d, d/e and d/e/x.md the first k were
\* synced before and have their pages, each under the page of its
\* directory; someone may have made a page "e" under the root.  The state
\* holds the entries of the synced paths, or it was lost.
EnsureInit ==
  /\ \E k \in 0..3, stray \in BOOLEAN, kept \in BOOLEAN :
       LET base == IF stray THEN 1 ELSE 0 IN
         /\ enPages = (IF stray THEN <<[title |-> "e", parent |-> 0]>> ELSE <<>>)
                        \o SubSeq(<<[title |-> "d", parent |-> 0],
                                    [title |-> "e", parent |-> base + 1],
                                    [title |-> "x", parent |-> base + 2]>>, 1, k)
         /\ enDirs = [d \in EnsureDirs |->
                        IF ~kept THEN 0
                        ELSE IF d = "d" /\ k >= 1 THEN base + 1
                        ELSE IF d = "d/e" /\ k >= 2 THEN base + 2
                        ELSE 0]
         /\ enFiles = IF kept /\ k = 3 THEN base + 3 ELSE 0
  /\ enPages0 = enPages
  /\ enStack = <<>>
  /\ enCalls = <<>>
  /\ enPc = "idle"
  /\ enRuns = 0

\* the innermost call
Top == enStack[Len(enStack)]

SetTop(f) == [enStack EXCEPT ![Len(enStack)] = f]

\* The innermost call returns id: the call that awaits it takes id for its
\* parentPageId and asks for the children of that page.
Returns(id) ==
  IF Len(enStack) = 1
    THEN enStack' = <<>> /\ enPc' = "returned"
    ELSE /\ enStack' = [SubSeq(enStack, 1, Len(enStack) - 1) EXCEPT
                          ![Len(enStack) - 1] = [@ EXCEPT !.pc = "list", !.parent = id]]
         /\ UNCHANGED enPc

\* a remote call is refused: nothing catches, every call in progress rejects
EnRejects == enStack' = <<>> /\ enPc' = "rejected"

\* startupSync calls ensureDirPage for a scanned directory, or syncFile is
\* called for the file, which is not tracked.
EnsureCall(t) ==
  /\ enStack = <<>>
  /\ enRuns < MaxEnsureCalls
  /\ t = EnsureFile => enFiles = 0
  /\ enStack' = <<Frame(t, "enter", 0, 0)>>
  /\ enPc' = "running"
  /\ enRuns' = enRuns + 1
  /\ UNCHANGED <<enPages, enPages0, enDirs, enFiles, enCalls>>
  /\ UNCHANGED notEnsure

\* ensureDirPage, lines 1146-1159, and syncFile, lines 1240-1249: a
\* directory in state.dirs is returned at once; with a parent directory
\* ensureDirPage(parent) is awaited; else the parent page is the root.
EnsureEnter ==
  /\ enStack # <<>>
  /\ Top.pc = "enter"
  /\ IF Top.path \in EnsureDirs /\ enDirs[Top.path] # 0
       THEN Returns(enDirs[Top.path])
       ELSE IF enDirname(Top.path) # "."
         THEN /\ enStack' = Append(SetTop([Top EXCEPT !.pc = "parent"]),
                                   Frame(enDirname(Top.path), "enter", 0, 0))
              /\ UNCHANGED enPc
         ELSE /\ enStack' = SetTop([Top EXCEPT !.pc = "list", !.parent = 0])
              /\ UNCHANGED enPc
  /\ UNCHANGED <<enPages, enPages0, enDirs, enFiles, enCalls, enRuns>>
  /\ UNCHANGED notEnsure

\* ensureDirPage, lines 1163-1176, and syncFile, lines 1266-1277:
\* getChildPages(parentPageId) is answered; a child with the title is
\* reused: a directory is recorded and returned, a file goes on to
\* updatePageContent; without such a child createPage is called.
EnsureList(ok) ==
  /\ enStack # <<>>
  /\ Top.pc = "list"
  /\ enCalls' = Append(enCalls, Call("getChildPages", Top.parent))
  /\ IF ~ok
       THEN EnRejects /\ UNCHANGED enDirs
       ELSE LET existing == enFind(enChildren(Top.parent), enBasename(Top.path)) IN
            IF existing = 0
              THEN /\ enStack' = SetTop([Top EXCEPT !.pc = "create"])
                   /\ UNCHANGED <<enDirs, enPc>>
              ELSE IF Top.path \in EnsureDirs
                THEN /\ enDirs' = [enDirs EXCEPT ![Top.path] = existing]
                     /\ Returns(existing)
                ELSE /\ enStack' = SetTop([Top EXCEPT !.pc = "update", !.page = existing])
                     /\ UNCHANGED <<enDirs, enPc>>
  /\ UNCHANGED <<enPages, enPages0, enFiles, enRuns>>
  /\ UNCHANGED notEnsure

\* ensureDirPage, lines 1177-1189, and syncFile, lines 1278-1281:
\* createPage(parentPageId, title, ...) is answered.
EnsureCreate(ok) ==
  /\ enStack # <<>>
  /\ Top.pc = "create"
  /\ enCalls' = Append(enCalls, Call("createPage", Len(enPages) + 1))
  /\ IF ~ok
       THEN EnRejects /\ UNCHANGED <<enPages, enDirs>>
       ELSE /\ enPages' = Append(enPages, [title |-> enBasename(Top.path),
                                            parent |-> Top.parent])
            /\ IF Top.path \in EnsureDirs
                 THEN /\ enDirs' = [enDirs EXCEPT ![Top.path] = Len(enPages) + 1]
                      /\ Returns(Len(enPages) + 1)
                 ELSE /\ enStack' = SetTop([Top EXCEPT !.pc = "meta",
                                                       !.page = Len(enPages) + 1])
                      /\ UNCHANGED <<enDirs, enPc>>
  /\ UNCHANGED <<enPages0, enFiles, enRuns>>
  /\ UNCHANGED notEnsure

\* syncFile, lines 1273-1277: updatePageContent(pageId, blocks) is answered.
EnsureUpdate(ok) ==
  /\ enStack # <<>>
  /\ Top.pc = "update"
  /\ enCalls' = Append(enCalls, Call("updatePageContent", Top.page))
  /\ IF ~ok THEN EnRejects
            ELSE enStack' = SetTop([Top EXCEPT !.pc = "meta"]) /\ UNCHANGED enPc
  /\ UNCHANGED <<enPages, enPages0, enDirs, enFiles, enRuns>>
  /\ UNCHANGED notEnsure

\* syncFile, lines 1283-1291: getPageMeta(pageId) is answered, the FileState
\* is recorded and the state saved.
EnsureMeta(ok) ==
  /\ enStack # <<>>
  /\ Top.pc = "meta"
  /\ enCalls' = Append(enCalls, Call("getPageMeta", Top.page))
  /\ IF ~ok THEN EnRejects /\ UNCHANGED enFiles
            ELSE enFiles' = Top.page /\ Returns(Top.page)
  /\ UNCHANGED <<enPages, enPages0, enDirs, enRuns>>
  /\ UNCHANGED notEnsure

EnsureNext ==
  \/ \E t \in EnsureDirs \cup {EnsureFile} : EnsureCall(t)
  \/ EnsureEnter
  \/ \E ok \in BOOLEAN : EnsureList(ok)
  \/ \E ok \in BOOLEAN : EnsureCreate(ok)
  \/ \E ok \in BOOLEAN : EnsureUpdate(ok)
  \/ \E ok \in BOOLEAN : EnsureMeta(ok)

InitEnsure ==
  /\ EnsureInit
  /\ QueueOff
  /\ RetryOff
  /\ LockOff
  /\ SyncOff
  /\ UpdateOff
  /\ DebounceOff
  /\ HookOff
  /\ StartupOff
  /\ FastOff
  /\ RaceOff

SpecEnsure == InitEnsure /\ [][EnsureNext]_vars

\* the pages with a title under a parent page
PagesTitled(pg, parent, title) ==
  {n \in 1..Len(pg) : pg[n].parent = parent /\ pg[n].title = title}

\* the page a path had when the first call began; 0: none
RECURSIVE PageBefore(_)
PageBefore(p) ==
  LET up == IF enDirname(p) = "." THEN 0 ELSE PageBefore(enDirname(p))
      found == IF enDirname(p) # "." /\ up = 0 THEN {}
               ELSE PagesTitled(enPages0, up, enBasename(p))
  IN  IF found = {} THEN 0 ELSE CHOOSE n \in found : TRUE

\* C34. ensureDirPage makes no remote call for a directory that state.dirs
\* holds.  A call that lists, creates or updates for a path under a
\* directory has that directory recorded and works under its page.  A page
\* is created only when the parent page lists no page with the title.
\* Hence no parent lists two pages with one title, and for a directory or
\* file that had its page when the calls began no further page is created,
\* whether the state was kept or lost.
C34_EnsureDir ==
  /\ [][(/\ enStack # <<>>
         /\ Top.pc = "enter"
         /\ Top.path \in EnsureDirs
         /\ enDirs[Top.path] # 0)
        => enCalls' = enCalls /\ enPages' = enPages]_vars
  /\ [](\A k \in 1..Len(enStack) :
          /\ enStack[k].pc \in {"list", "create", "update", "meta"}
          /\ enDirname(enStack[k].path) # "."
          => /\ enDirs[enDirname(enStack[k].path)] # 0
             /\ enStack[k].parent = enDirs[enDirname(enStack[k].path)])
  /\ [][Len(enPages') > Len(enPages) =>
          PagesTitled(enPages, enPages'[Len(enPages')].parent,
                      enPages'[Len(enPages')].title) = {}]_vars
  /\ [](\A n, m \in 1..Len(enPages) :
          n # m /\ enPages[n].parent = enPages[m].parent
            => enPages[n].title # enPages[m].title)
  /\ [](\A n \in (Len(enPages0) + 1)..Len(enPages) :
          \A p \in EnsureDirs \cup {EnsureFile} :
            PageBefore(p) # 0 =>
              ~(/\ enPages[n].title = enBasename(p)
                /\ enPages[n].parent = enPages0[PageBefore(p)].parent))

\* C34 witness: the state was lost; syncFile of d/e/x.md has found the pages
\* of d, of d/e (not the page "e" under the root) and of the file, has
\* recorded them and has created no page.
C34_Witness ==
  /\ enPc = "returned"
  /\ enRuns = 1
  /\ Len(enPages0) = 4
  /\ enPages = enPages0
  /\ enDirs = [d \in EnsureDirs |-> PageBefore(d)]
  /\ enFiles = PageBefore(EnsureFile)
  /\ enFiles # 0
  /\ Len(enCalls) = 5

=============================================================================
